---- MODULE Spec2Model ----
(***************************************************************************)
(* Transfer reconstruction of SOLTOKENTRACKER: the balance-delta           *)
(* extractors, the decimal normalizers and the transfer synthesizers of    *)
(* SolanaService (src/src/services/solanaService.ts) and TransactionParser *)
(* (src/src/config.ts), the dedup/merge step and the batch and streaming   *)
(* queries of SolanaService, and fetchWithRetry of HeliusService and       *)
(* MetadataService (src/unnamed/part_000, src/unnamed/part_001).           *)
(***************************************************************************)
EXTENDS Integers, Sequences, FiniteSets, TLC

VARIABLES
    tx,        \* the ParsedTransactionWithMeta handed to a parser
    wallet,    \* the walletAddress of a scoped parse (NoOwner otherwise)
    op,        \* which parser operation has run on tx ("none" before)
    deltas,    \* the BalanceChange list the operation's extractor produced
    records,   \* the TokenTransfer list the operation returned
    target,    \* the tokenMint handed to a decimal normalizer
    resolved,  \* the decimals the normalizer returned
    api,       \* the query running: "batch" (getTokenTransfers), "stream"
               \* (getTokenTransfersStream), "none" when only a parser runs
    scope,     \* walletAddress of the query (NoOwner: token-wide)
    rpc,       \* "plain", "heliusNoKey" (helius URL without api key) or "helius"
    pc,        \* where the query stands
    pages,     \* pages of the indexed search fetched so far
    scanned,   \* i of the block-scan loop
    sigIdx,    \* signature entries of the wallet and its accounts handled so far
    atasLeft,  \* token accounts of the wallet still to walk
    seen,      \* stream: the seen set of composite keys
    buffer,    \* stream: records accepted and not yet handed to onBatch
    batches,   \* stream: the batches onBatch has been called with, in order
    pushed,    \* stream: every record push() has been called with, in order
    transfers, \* batch: the transfers array being collected
    result,    \* batch: the list getTokenTransfers returned
    strategies, \* batch, token-wide: the strategies that have returned, in
               \* order, each with the list it returned
    raised,    \* the failure of an upstream call that ended the query
    error,     \* the error the query threw or rejected with (<<>>: none)
    client,    \* whose fetchWithRetry runs: "helius", "metadata" ("none": neither)
    step,      \* where the client stands
    clock,     \* Date.now(), in ms
    rateLimitCount,    \* HeliusService.rateLimitCount
    lastRateLimitTime, \* HeliusService.lastRateLimitTime
    callNow,   \* fetchWithRetry: the now of the call in progress
    attempt,   \* fetchWithRetry: the loop variable
    answer,    \* what the last call of fetchWithRetry returned or threw
    searchPages, \* searchTokenWideTransfers: pages
    collected, \* searchTokenWideTransfers: its transfers array
    returned,  \* searchTokenWideTransfers: the list it returned last
    calls,     \* calls of fetchWithRetry made so far
    requests,  \* every fetch(url, options) issued, in order, with its outcome
    appState,  \* TokenTracker: the query on screen (0: null, the input form)
    submitted, \* TokenTracker: queries the user has submitted so far
    effectRan, \* TokenTracker: the streaming effect has run for appState
    isStreaming,     \* TokenTracker: isStreaming.current
    isTracking,      \* TokenTracker: isTracking
    streamTransfers, \* TokenTracker: streamTransfers
    streams,   \* per query: its getTokenTransfersStream call and the batches
               \* it has handed to onBatch
    queryData, \* per query: what its getTokenTransfers call resolved to
    accounts,  \* sampling: what getProgramAccounts returned
    sampler,   \* sampling: whose down-selection has run ("none" before)
    accountsToSample, \* sampling: the accounts it selected
    before,    \* indexed search: the pagination cursor (<<>>: undefined)
    pageLog    \* indexed search: the page requests of the run, in order, each
               \* with the cursor it carried and what came back

parseVars == <<tx, wallet, op, deltas, records>>

decVars == <<target, resolved>>

retryVars == <<client, step, clock, rateLimitCount, lastRateLimitTime, callNow,
               attempt, answer, searchPages, collected, returned, calls,
               requests>>

appVars == <<appState, submitted, effectRan, isStreaming, isTracking,
             streamTransfers, streams, queryData>>

sampleVars == <<accounts, sampler, accountsToSample>>

cursorVars == <<before, pageLog>>

queryVars == <<api, scope, rpc, pc, pages, scanned, sigIdx, atasLeft,
               seen, buffer, batches, pushed, transfers, result, strategies,
               raised, error>>

vars == <<tx, wallet, op, deltas, records, target, resolved, api, scope, rpc, pc, pages, scanned,
          sigIdx, atasLeft, seen, buffer, batches, pushed, transfers, result,
          strategies, raised, error, client, step, clock, rateLimitCount, lastRateLimitTime,
          callNow, attempt, answer, searchPages, collected, returned, calls,
          requests, appState, submitted, effectRan, isStreaming, isTracking,
          streamTransfers, streams, queryData, accounts, sampler,
          accountsToSample, before, pageLog>>

\* No upstream call has failed.
NoFailure == [call |-> "", e |-> <<>>]

\* No TokenTracker is mounted.
NoApp ==
    /\ appState = 0
    /\ submitted = 0
    /\ effectRan = FALSE
    /\ isStreaming = FALSE
    /\ isTracking = FALSE
    /\ streamTransfers = <<>>
    /\ streams = <<>>
    /\ queryData = <<>>

\* No page of an indexed search has been requested.
NoCursor ==
    /\ before = <<>>
    /\ pageLog = <<>>

\* No sampling runs.
NoSample ==
    /\ accounts = <<>>
    /\ sampler = "none"
    /\ accountsToSample = <<>>

\* No decimal normalizer is running.
NoDecimals ==
    /\ target = ""
    /\ resolved = [kind |-> "undefined", v |-> 0]

\* fetchWithRetry has returned nothing yet.
NoAnswer == [threw |-> FALSE, status |-> 0]

\* No client is fetching.
NoRetry ==
    /\ client = "none"
    /\ step = "none"
    /\ clock = 0
    /\ rateLimitCount = 0
    /\ lastRateLimitTime = 0
    /\ callNow = 0
    /\ attempt = 0
    /\ answer = NoAnswer
    /\ searchPages = 0
    /\ collected = <<>>
    /\ returned = <<>>
    /\ calls = 0
    /\ requests = <<>>

\* No query is running.
NoQuery ==
    /\ api = "none"
    /\ scope = ""
    /\ rpc = "plain"
    /\ pc = "none"
    /\ pages = 0
    /\ scanned = 0
    /\ sigIdx = 0
    /\ atasLeft = 0
    /\ seen = {}
    /\ buffer = <<>>
    /\ batches = <<>>
    /\ pushed = <<>>
    /\ transfers = <<>>
    /\ result = <<>>
    /\ strategies = <<>>
    /\ raised = NoFailure
    /\ error = <<>>

-----------------------------------------------------------------------------
(* JavaScript numbers.  A raw balance change is an integer or NaN; a        *)
(* display amount is a decimal m / 10^e (kept canonical, so that two        *)
(* amounts are the same number exactly when the records are equal) or NaN.  *)
(* Floating-point rounding of the division is not modelled: for raw amounts *)
(* below 2^53 distinct canonical decimals are distinct doubles.             *)

NaN == [nan |-> TRUE, v |-> 0]

Num(n) == [nan |-> FALSE, v |-> n]

NumSub(a, b) == IF a.nan \/ b.nan THEN NaN ELSE Num(a.v - b.v)

NumNeg(a) == IF a.nan THEN NaN ELSE Num(0 - a.v)

NumAbs(a) == IF a.nan THEN NaN ELSE Num(IF a.v < 0 THEN 0 - a.v ELSE a.v)

\* a < 0, a > 0, a !== 0 of JavaScript: every comparison with NaN is false,
\* so NaN !== 0 is true.
IsNegative(a) == ~a.nan /\ a.v < 0

IsPositive(a) == ~a.nan /\ a.v > 0

StrictNeZero(a) == a.nan \/ a.v # 0

\* Math.sign: NaN for NaN, else -1, 0 or 1.
MathSign(a) == IF a.nan THEN NaN ELSE Num(IF a.v < 0 THEN 0 - 1 ELSE IF a.v > 0 THEN 1 ELSE 0)

\* x !== y on two Math.sign results: NaN differs from everything, itself included.
SignsDiffer(x, y) == x.nan \/ y.nan \/ x.v # y.v

AmountNaN == [nan |-> TRUE, m |-> 0, e |-> 0]

RECURSIVE Canonical(_, _)
Canonical(m, e) ==
    IF e > 0 /\ m % 10 = 0 THEN Canonical(m \div 10, e - 1)
    ELSE [nan |-> FALSE, m |-> m, e |-> e]

\* Math.abs(change) / Math.pow(10, decimals)
AmountOf(change, decimals) ==
    IF change.nan THEN AmountNaN ELSE Canonical(NumAbs(change).v, decimals)

-----------------------------------------------------------------------------
(* Raw amounts are decimal strings (uiTokenAmount.amount), modelled as      *)
(* sequences of characters so that parseInt is computed, not assumed.       *)

DigitChars == <<"0", "1", "2", "3", "4", "5", "6", "7", "8", "9">>

IsDigit(c) == \E d \in 1..10 : DigitChars[d] = c

DigitValue(c) == (CHOOSE d \in 1..10 : DigitChars[d] = c) - 1

RECURSIVE ToDigits(_)
ToDigits(n) ==
    IF n < 10 THEN <<DigitChars[n + 1]>>
    ELSE Append(ToDigits(n \div 10), DigitChars[(n % 10) + 1])

\* The RPC's rendering of a raw u64 amount.
AmountString(n) == ToDigits(n)

RECURSIVE ParseDigits(_, _, _)
ParseDigits(s, i, acc) ==
    IF i > Len(s) \/ ~IsDigit(s[i]) THEN acc
    ELSE ParseDigits(s, i + 1, acc * 10 + DigitValue(s[i]))

\* parseInt(s): an optional sign, then the longest prefix of digits; NaN when
\* there is no digit.
parseInt(s) ==
    LET neg   == Len(s) >= 1 /\ s[1] = "-"
        first == IF Len(s) >= 1 /\ s[1] \in {"-", "+"} THEN 2 ELSE 1
    IN  IF first > Len(s) \/ ~IsDigit(s[first]) THEN NaN
        ELSE LET n == ParseDigits(s, first, 0)
             IN  Num(IF neg THEN 0 - n ELSE n)

-----------------------------------------------------------------------------
(* TokenBalance snapshots                                                   *)

NoOwner == ""          \* owner absent (undefined): falsy, as "" is

Unknown == "Unknown"

DecUndefined == [kind |-> "undefined", v |-> 0]

DecNull == [kind |-> "null", v |-> 0]

Dec(n) == [kind |-> "num", v |-> n]

TokenBalance(i, o, mnt, amt, dec) ==
    [accountIndex |-> i, owner |-> o, mint |-> mnt, amount |-> amt, decimals |-> dec]

DefaultDecimals == 6

(* SolanaService.getTokenDecimalsFromBalances: the first snapshot of the    *)
(* mint, whether or not it carries decimals; ?? 6.                          *)
Solana_getTokenDecimalsFromBalances(pre, post, tokenMint) ==
    LET all == pre \o post
        hit == {k \in 1..Len(all) : all[k].mint = tokenMint}
    IN  IF hit = {} THEN DefaultDecimals
        ELSE LET k == CHOOSE x \in hit : \A y \in hit : x <= y
             IN  IF all[k].decimals.kind = "num" THEN all[k].decimals.v
                 ELSE DefaultDecimals


\* The static table of TransactionParser.getTokenDecimalsFromBalances;
\* 0 stands for "not in the table" (undefined is falsy, as 0 is).
commonDecimals(tokenMint) ==
    CASE tokenMint = "EPjFWdd5AufqSSqeM2qN1xzybapC8G4wEGGkZwyTDt1v" -> 6
      [] tokenMint = "Es9vMFrzaCERmJfrF4H2FYD4KCoNkY11McCe8BenwNYB" -> 6
      [] tokenMint = "So11111111111111111111111111111111111111112" -> 9
      [] tokenMint = "pumpCmXqMfrsAkQ5r49WcJnRayYRqmXz6ae8H7H9Dfn" -> 6
      [] tokenMint = "DezXAZ8z7PnrnRJjz3wXBoRgixCa6xjnB7YaB1pPB263" -> 5
      [] OTHER -> 0

(* TransactionParser.getTokenDecimalsFromBalances: the first snapshot of    *)
(* the mint whose decimals is not null (an undefined one matches too); its  *)
(* decimals unless undefined; else the table; else 6.                       *)
Parser_getTokenDecimalsFromBalances(pre, post, tokenMint) ==
    LET all == pre \o post
        hit == {k \in 1..Len(all) : all[k].mint = tokenMint /\ all[k].decimals.kind # "null"}
        first == CHOOSE x \in hit : \A y \in hit : x <= y
    IN  IF hit # {} /\ all[first].decimals.kind = "num" THEN all[first].decimals.v
        ELSE IF commonDecimals(tokenMint) # 0 THEN commonDecimals(tokenMint)
        ELSE DefaultDecimals

-----------------------------------------------------------------------------
(* Balance-delta extraction                                                 *)

BalanceChange(o, c, a) == [owner |-> o, change |-> c, account |-> a]

\* PreAmount with the lookup not keyed by account index (the last
\* pre-snapshot of the mint, whichever account it is).
PreAmount_AnyAccount(pre, tokenMint, idx) ==
    LET hit == {k \in 1..Len(pre) : pre[k].mint = tokenMint}
    IN  IF hit = {} THEN Num(0)
        ELSE parseInt(pre[CHOOSE x \in hit : \A y \in hit : y <= x].amount)

\* preBalanceMap.get(accountIndex): the last pre-snapshot of the mint with
\* that index (Map.set overwrites); 0 when there is none.
PreAmount(pre, tokenMint, idx) ==
    LET hit == {k \in 1..Len(pre) : pre[k].mint = tokenMint /\ pre[k].accountIndex = idx}
    IN  IF hit = {} THEN Num(0)
        ELSE parseInt(pre[CHOOSE x \in hit : \A y \in hit : y <= x].amount)

RECURSIVE PostChanges(_, _, _, _)
PostChanges(pre, post, tokenMint, k) ==
    IF k > Len(post) THEN <<>>
    ELSE LET pb     == post[k]
             change == NumSub(parseInt(pb.amount), PreAmount(pre, tokenMint, pb.accountIndex))
         IN  (IF pb.mint = tokenMint /\ StrictNeZero(change) /\ pb.owner # NoOwner
              THEN <<BalanceChange(pb.owner, change, pb.accountIndex)>>
              ELSE <<>>)
             \o PostChanges(pre, post, tokenMint, k + 1)

(* SolanaService.calculateTokenBalanceChanges: the post-snapshot loop only. *)
Solana_calculateTokenBalanceChanges(pre, post, tokenMint) ==
    PostChanges(pre, post, tokenMint, 1)

RECURSIVE EmptiedChanges(_, _, _, _)
EmptiedChanges(pre, post, tokenMint, k) ==
    IF k > Len(pre) THEN <<>>
    ELSE LET pb      == pre[k]
             hasPost == \E j \in 1..Len(post) :
                            post[j].accountIndex = pb.accountIndex /\ post[j].mint = tokenMint
             preAmt  == parseInt(pb.amount)
         IN  (IF pb.mint = tokenMint /\ pb.owner # NoOwner /\ ~hasPost /\ IsPositive(preAmt)
              THEN <<BalanceChange(pb.owner, NumNeg(preAmt), pb.accountIndex)>>
              ELSE <<>>)
             \o EmptiedChanges(pre, post, tokenMint, k + 1)

(* TransactionParser.calculateTokenBalanceChanges: the post-snapshot loop,  *)
(* then the accounts that were emptied.                                     *)
Parser_calculateTokenBalanceChanges(pre, post, tokenMint) ==
    PostChanges(pre, post, tokenMint, 1) \o EmptiedChanges(pre, post, tokenMint, 1)

-----------------------------------------------------------------------------
(* Transfer synthesis                                                       *)

TokenTransfer(sig, ts, dir, amt, from, to, slot) ==
    [signature |-> sig, timestamp |-> ts, direction |-> dir, amount |-> amt,
     fromAddress |-> from, toAddress |-> to, slot |-> slot]

\* Array.prototype.find: the first element satisfying Test, as a set of indexes
FirstIndex(seq, Test(_)) ==
    LET hit == {k \in 1..Len(seq) : Test(seq[k])}
    IN  IF hit = {} THEN 0 ELSE CHOOSE x \in hit : \A y \in hit : x <= y

\* findCounterparty without the test on the sign.
findCounterparty_AnyOther(balanceChanges, walletAddress) ==
    LET IsOther(c) == c.owner # walletAddress
        o == FirstIndex(balanceChanges, IsOther)
    IN  IF o = 0 THEN Unknown ELSE balanceChanges[o].owner

(* SolanaService.findCounterparty *)
findCounterparty(balanceChanges, walletAddress) ==
    LET IsWallet(c) == c.owner = walletAddress
        w == FirstIndex(balanceChanges, IsWallet)
    IN  IF w = 0 THEN Unknown
        ELSE LET IsOpposite(c) ==
                     /\ c.owner # walletAddress
                     /\ SignsDiffer(MathSign(c.change), MathSign(balanceChanges[w].change))
                 o == FirstIndex(balanceChanges, IsOpposite)
             IN  IF o = 0 THEN Unknown ELSE balanceChanges[o].owner

(* SolanaService.parseTransactionForTokenTransfer (scoped): null is <<>>,   *)
(* a record is <<record>>.                                                  *)
parseTransactionForTokenTransfer(t, walletAddress, tokenMint) ==
    IF ~t.hasMeta \/ t.blockTime = 0 THEN <<>>
    ELSE LET changes == Solana_calculateTokenBalanceChanges(t.pre, t.post, tokenMint)
             IsWallet(c) == c.owner = walletAddress
             w == FirstIndex(changes, IsWallet)
         IN  IF changes = <<>> \/ w = 0 THEN <<>>
             ELSE LET wc == changes[w].change
                      counterparty == findCounterparty(changes, walletAddress)
                      tokenDecimals == Solana_getTokenDecimalsFromBalances(t.pre, t.post, tokenMint)
                  IN  IF ~StrictNeZero(wc) THEN <<>>
                      ELSE <<TokenTransfer(
                                t.signature,
                                t.blockTime * 1000,
                                IF IsPositive(wc) THEN "received" ELSE "sent",
                                AmountOf(wc, tokenDecimals),
                                IF IsPositive(wc) THEN counterparty ELSE walletAddress,
                                IF IsPositive(wc) THEN walletAddress ELSE counterparty,
                                t.slot)>>

Senders(changes) == SelectSeq(changes, LAMBDA c : IsNegative(c.change))

Receivers(changes) == SelectSeq(changes, LAMBDA c : IsPositive(c.change))

\* WithinTolerance with < for <=.
WithinTolerance_Strict(senderChange, receiverChange) ==
    LET sa   == NumAbs(senderChange).v
        ra   == NumAbs(receiverChange).v
        diff == IF sa >= ra THEN sa - ra ELSE ra - sa
        mx   == IF sa >= ra THEN sa ELSE ra
    IN  diff * 1000 < mx

\* amountDiff <= Math.max(senderAmount, receiverAmount) * 0.001
WithinTolerance(senderChange, receiverChange) ==
    LET sa   == NumAbs(senderChange).v
        ra   == NumAbs(receiverChange).v
        diff == IF sa >= ra THEN sa - ra ELSE ra - sa
        mx   == IF sa >= ra THEN sa ELSE ra
    IN  diff * 1000 <= mx

\* The pairing loop without processedReceivers.add(receiver.owner).
RECURSIVE PairingLoop_ReusesReceiver(_, _, _, _, _, _, _)
PairingLoop_ReusesReceiver(t, senders, receivers, tokenDecimals, si, ps, pr) ==
    IF si > Len(senders) THEN <<>>
    ELSE LET sender == senders[si]
             Fits(r) == r.owner \notin pr /\ WithinTolerance(sender.change, r.change)
             ri == FirstIndex(receivers, Fits)
         IN  IF sender.owner \in ps \/ ri = 0
             THEN PairingLoop_ReusesReceiver(t, senders, receivers, tokenDecimals, si + 1, ps, pr)
             ELSE <<TokenTransfer(t.signature, t.blockTime * 1000, "sent",
                                  AmountOf(sender.change, tokenDecimals),
                                  sender.owner, receivers[ri].owner, t.slot)>>
                  \o PairingLoop_ReusesReceiver(t, senders, receivers, tokenDecimals, si + 1,
                                                ps \cup {sender.owner}, pr)

\* The pairing loop of parseTransactionForTokenTransfers, from sender si on,
\* with the owners already in processedSenders (ps) and processedReceivers (pr).
RECURSIVE PairingLoop(_, _, _, _, _, _, _)
PairingLoop(t, senders, receivers, tokenDecimals, si, ps, pr) ==
    IF si > Len(senders) THEN <<>>
    ELSE LET sender == senders[si]
             Fits(r) == r.owner \notin pr /\ WithinTolerance(sender.change, r.change)
             ri == FirstIndex(receivers, Fits)
         IN  IF sender.owner \in ps \/ ri = 0
             THEN PairingLoop(t, senders, receivers, tokenDecimals, si + 1, ps, pr)
             ELSE <<TokenTransfer(t.signature, t.blockTime * 1000, "sent",
                                  AmountOf(sender.change, tokenDecimals),
                                  sender.owner, receivers[ri].owner, t.slot)>>
                  \o PairingLoop(t, senders, receivers, tokenDecimals, si + 1,
                                 ps \cup {sender.owner}, pr \cup {receivers[ri].owner})

(* SolanaService.parseTransactionForTokenTransfers (unscoped) *)
Solana_parseTransactionForTokenTransfers(t, tokenMint) ==
    IF ~t.hasMeta \/ t.blockTime = 0 THEN <<>>
    ELSE LET changes == Solana_calculateTokenBalanceChanges(t.pre, t.post, tokenMint)
         IN  IF changes = <<>> THEN <<>>
             ELSE PairingLoop(t, Senders(changes), Receivers(changes),
                              Solana_getTokenDecimalsFromBalances(t.pre, t.post, tokenMint),
                              1, {}, {})


\* The record one branch of TransactionParser.parseTransactionForTokenTransfers
\* builds for change c: branch is "1:N" (other is the one sender), "N:1"
\* (other is the one receiver) or "fallback".
ParserRecord(t, ts, branch, other, c, transferAmount) ==
    LET isReceived == IsPositive(c.change)
    IN  CASE branch = "1:N" ->
               TokenTransfer(t.signature, ts, "sent", transferAmount, other, c.owner, t.slot)
          [] branch = "N:1" ->
               TokenTransfer(t.signature, ts, "received", transferAmount, c.owner, other, t.slot)
          [] OTHER ->
               TokenTransfer(t.signature, ts,
                             IF isReceived THEN "received" ELSE "sent", transferAmount,
                             IF isReceived THEN Unknown ELSE c.owner,
                             IF isReceived THEN c.owner ELSE Unknown,
                             t.slot)

\* The loop of a branch: a record per change, unless the amount is NaN or
\* not positive.
RECURSIVE ParserEmit(_, _, _, _, _, _, _)
ParserEmit(t, ts, changes, divisorDecimals, k, branch, other) ==
    IF k > Len(changes) THEN <<>>
    ELSE LET transferAmount == AmountOf(changes[k].change, divisorDecimals)
         IN  (IF transferAmount.nan \/ transferAmount.m <= 0 THEN <<>>
              ELSE <<ParserRecord(t, ts, branch, other, changes[k], transferAmount)>>)
             \o ParserEmit(t, ts, changes, divisorDecimals, k + 1, branch, other)

(* TransactionParser.parseTransactionForTokenTransfers: 1:N, N:1, and the   *)
(* fallback of one record per balance change.  nowSec is                    *)
(* Math.floor(Date.now() / 1000).                                           *)
Parser_parseTransactionForTokenTransfers(t, tokenMint, nowSec) ==
    IF ~t.hasMeta THEN <<>>
    ELSE LET blockTime == IF t.blockTime # 0 THEN t.blockTime ELSE nowSec
             ts        == blockTime * 1000
             changes   == Parser_calculateTokenBalanceChanges(t.pre, t.post, tokenMint)
             \* Math.pow(10, Math.max(0, tokenDecimals || 0)); decimals are never negative here
             dec       == Parser_getTokenDecimalsFromBalances(t.pre, t.post, tokenMint)
             senders   == Senders(changes)
             receivers == Receivers(changes)
         IN  IF changes = <<>> THEN <<>>
             ELSE IF Len(senders) = 1 /\ Len(receivers) > 1
                  THEN ParserEmit(t, ts, receivers, dec, 1, "1:N", senders[1].owner)
             ELSE IF Len(senders) > 1 /\ Len(receivers) = 1
                  THEN ParserEmit(t, ts, senders, dec, 1, "N:1", receivers[1].owner)
             ELSE ParserEmit(t, ts, changes, dec, 1, "fallback", Unknown)

-----------------------------------------------------------------------------
(* The transactions the parsers are run on                                  *)

MaxAccounts == 4       \* accounts of a transfer-shaped transaction

MaxOddAccounts == 2    \* accounts of a transaction with irregular snapshots

NowSec == 5000         \* Date.now() / 1000 when a parser runs

TokenMint == "X"       \* the queried mint (in no static table)

OwnerNames == <<"Alice", "Bob", "Carol", "Dave", "Erin", "Frank">>

\* A shape is what one account looks like before and after: a missing
\* snapshot is <<>>, a present one <<amount string>>.
Shape(p, q, mnt) == [pre |-> p, post |-> q, mint |-> mnt]

TransferShapes ==
    { Shape(<<>>, <<>>, TokenMint),                                   \* not in the transaction
      Shape(<<AmountString(1000)>>, <<AmountString(400)>>, TokenMint),  \* -600
      Shape(<<>>, <<AmountString(600)>>, TokenMint),                  \* +600, new account
      Shape(<<AmountString(1000)>>, <<AmountString(0)>>, TokenMint),  \* -1000
      Shape(<<AmountString(1000)>>, <<AmountString(1999)>>, TokenMint), \* +999
      Shape(<<AmountString(100)>>, <<AmountString(1000)>>, TokenMint),  \* +900
      Shape(<<AmountString(600)>>, <<>>, TokenMint) }                 \* closed: -600

OddShapes ==
    TransferShapes \cup
    { Shape(<<AmountString(400)>>, <<AmountString(400)>>, TokenMint),   \* unchanged
      Shape(<<AmountString(0)>>, <<>>, TokenMint),                    \* closed while empty
      Shape(<< <<"a", "b", "c">> >>, <<AmountString(600)>>, TokenMint), \* non-numeric pre
      Shape(<<AmountString(250)>>, << <<>> >>, TokenMint),            \* empty-string post
      Shape(<<AmountString(5)>>, <<AmountString(9)>>, "Y") }          \* another mint

\* Who owns account i: all distinct, or accounts 1 and 2 of one owner, or
\* account 2 without an owner field.
OwnerPatterns == {"distinct", "shared", "ownerless"}

OwnerOf(pattern, i) ==
    IF i = 2 /\ pattern = "shared" THEN OwnerNames[1]
    ELSE IF i = 2 /\ pattern = "ownerless" THEN NoOwner
    ELSE OwnerNames[i]

RECURSIVE Snapshots(_, _, _, _, _)
Snapshots(shapes, pattern, dec, side, i) ==
    IF i > Len(shapes) THEN <<>>
    ELSE LET amt == IF side = "pre" THEN shapes[i].pre ELSE shapes[i].post
         IN  (IF amt = <<>> THEN <<>>
              ELSE <<TokenBalance(i, OwnerOf(pattern, i), shapes[i].mint, amt[1], dec)>>)
             \o Snapshots(shapes, pattern, dec, side, i + 1)

Transaction(shapes, pattern, dec, blockTime, meta) ==
    [hasMeta   |-> meta,
     blockTime |-> blockTime,      \* seconds; 0 stands for null
     signature |-> "sig1",
     slot      |-> 77,
     pre       |-> IF meta THEN Snapshots(shapes, pattern, dec, "pre", 1) ELSE <<>>,
     post      |-> IF meta THEN Snapshots(shapes, pattern, dec, "post", 1) ELSE <<>>]

\* (owner pattern, decimals, blockTime, meta) of the transfer-shaped family
TransferVariants ==
    { <<"distinct", Dec(0), NowSec - 10, TRUE>>,
      <<"distinct", Dec(2), NowSec - 10, TRUE>>,
      <<"shared", Dec(0), NowSec - 10, TRUE>>,
      <<"distinct", Dec(0), 0, TRUE>> }

OddVariants ==
    { <<p, Dec(0), NowSec - 10, TRUE>> : p \in OwnerPatterns } \cup
    { <<"distinct", DecUndefined, NowSec - 10, TRUE>>,
      <<"distinct", Dec(0), NowSec - 10, FALSE>> }

TransferTransactions ==
    { Transaction(sh, v[1], v[2], v[3], v[4]) :
          sh \in [1..MaxAccounts -> TransferShapes], v \in TransferVariants }

OddTransactions ==
    { Transaction(sh, v[1], v[2], v[3], v[4]) :
          sh \in [1..MaxOddAccounts -> OddShapes], v \in OddVariants }

ScopedWallets == {OwnerNames[1], OwnerNames[2]}

-----------------------------------------------------------------------------
(* Running one parser operation on one transaction                          *)

InitParse ==
    /\ tx \in TransferTransactions \cup OddTransactions
    /\ wallet = NoOwner
    /\ op = "none"
    /\ deltas = <<>>
    /\ records = <<>>
    /\ NoDecimals
    /\ NoQuery
    /\ NoRetry
    /\ NoApp
    /\ NoSample
    /\ NoCursor

ExtractSolana ==
    /\ op = "none"
    /\ op' = "extractSolana"
    /\ deltas' = Solana_calculateTokenBalanceChanges(tx.pre, tx.post, TokenMint)
    /\ UNCHANGED <<tx, wallet, records>>
    /\ UNCHANGED <<decVars, queryVars, retryVars, appVars, sampleVars, cursorVars>>

ExtractParser ==
    /\ op = "none"
    /\ op' = "extractParser"
    /\ deltas' = Parser_calculateTokenBalanceChanges(tx.pre, tx.post, TokenMint)
    /\ UNCHANGED <<tx, wallet, records>>
    /\ UNCHANGED <<decVars, queryVars, retryVars, appVars, sampleVars, cursorVars>>

ParseScoped ==
    /\ op = "none"
    /\ \E w \in ScopedWallets :
        /\ wallet' = w
        /\ records' = parseTransactionForTokenTransfer(tx, w, TokenMint)
    /\ op' = "scoped"
    /\ deltas' = Solana_calculateTokenBalanceChanges(tx.pre, tx.post, TokenMint)
    /\ UNCHANGED tx
    /\ UNCHANGED <<decVars, queryVars, retryVars, appVars, sampleVars, cursorVars>>

ParseUnscopedSolana ==
    /\ op = "none"
    /\ op' = "unscopedSolana"
    /\ deltas' = Solana_calculateTokenBalanceChanges(tx.pre, tx.post, TokenMint)
    /\ records' = Solana_parseTransactionForTokenTransfers(tx, TokenMint)
    /\ UNCHANGED <<tx, wallet>>
    /\ UNCHANGED <<decVars, queryVars, retryVars, appVars, sampleVars, cursorVars>>

ParseUnscopedParser ==
    /\ op = "none"
    /\ op' = "unscopedParser"
    /\ deltas' = Parser_calculateTokenBalanceChanges(tx.pre, tx.post, TokenMint)
    /\ records' = Parser_parseTransactionForTokenTransfers(tx, TokenMint, NowSec)
    /\ UNCHANGED <<tx, wallet>>
    /\ UNCHANGED <<decVars, queryVars, retryVars, appVars, sampleVars, cursorVars>>

NextParse ==
    \/ ExtractSolana
    \/ ExtractParser
    \/ ParseScoped
    \/ ParseUnscopedSolana
    \/ ParseUnscopedParser

SpecParse == InitParse /\ [][NextParse]_vars


-----------------------------------------------------------------------------
(* The queries of SolanaService: getTokenTransfers (batch) and              *)
(* getTokenTransfersStream (stream).  What the RPC node and the index       *)
(* answer is chosen by the environment at each call, from the small sets    *)
(* below.                                                                   *)

LookbackSeconds == 90      \* lookbackSeconds of the query

PageLen == 4               \* transactions on a full page of the index

IndexDepth == 3            \* pages of distinct transactions the index holds

ChainDepth == 2            \* recent slots for which the node has something to say

MaxSigs == 3               \* signature entries the node lists for the wallet and its accounts

MaxAtas == 1               \* token accounts of the wallet for the mint

StartSlot == 1000          \* what getSlot answers

FlushThreshold == 10       \* buffer.length >= 10

StreamMaxPages == 10       \* pages < 10

StreamMaxBlocks == 500     \* maxBlocks of the streaming block scan

NowMs == NowSec * 1000

\* Date.now() read while a query runs: the clock may have moved on.
Clock == {NowMs, NowMs + 1}

\* cutoffTimeMs = Date.now() - lookbackSeconds * 1000
CutoffTimeMs == NowMs - LookbackSeconds * 1000

\* Signatures are values that differ exactly when the transactions differ.
Signature(family, p, j) == <<family, p, j>>

-----------------------------------------------------------------------------
(* Transactions of the enhanced-transactions index (Helius REST)            *)

JsUndefined == [kind |-> "undefined", v |-> Num(0), s |-> <<>>]

JsNumber(n) == [kind |-> "number", v |-> Num(n), s |-> <<>>]

JsString(str) == [kind |-> "string", v |-> Num(0), s |-> str]

\* Number(s) of a string made of decimal digits or of other characters (the
\* strings used here carry no sign, fraction, exponent or blank).
StringToNumber(s) ==
    IF s = <<>> THEN Num(0)
    ELSE IF \A i \in 1..Len(s) : IsDigit(s[i]) THEN Num(ParseDigits(s, 1, 0))
    ELSE NaN

\* Number(x || 0)
NumberOrZero(x) ==
    CASE x.kind = "undefined" -> Num(0)
      [] x.kind = "number"    -> IF x.v.nan \/ x.v.v = 0 THEN Num(0) ELSE x.v
      [] OTHER                -> IF x.s = <<>> THEN Num(0) ELSE StringToNumber(x.s)

\* A JavaScript number as the amount of a record.
AmountOfNumber(n) == IF n.nan THEN AmountNaN ELSE [nan |-> FALSE, m |-> n.v, e |-> 0]

\* a || b || 'Unknown' on strings ("" stands for a missing field)
OrUnknown(a, b) == IF a # "" THEN a ELSE IF b # "" THEN b ELSE Unknown

IndexedTransfer(mnt, amt, fromUser, fromToken, toUser, toToken) ==
    [mint |-> mnt, tokenAmount |-> amt,
     fromUserAccount |-> fromUser, fromTokenAccount |-> fromToken,
     toUserAccount |-> toUser, toTokenAccount |-> toToken]

\* blockTime 0 and slot 0 stand for missing fields; isArray tells whether
\* tokenTransfers is an array.
IndexedTx(sig, blockTime, slot, isArray, tokenTransfers) ==
    [signature |-> sig, blockTime |-> blockTime, slot |-> slot,
     isArray |-> isArray, tokenTransfers |-> tokenTransfers]

PlainTransfer == IndexedTransfer(TokenMint, JsNumber(5), OwnerNames[1], "", OwnerNames[2], "")

\* Page p of distinct recent transactions, newest first.
FreshPage(p) ==
    [j \in 1..PageLen |->
        IndexedTx(Signature("idx", p, j), NowSec - ((p - 1) * PageLen + j),
                  StartSlot - ((p - 1) * PageLen + j), TRUE, <<PlainTransfer>>)]

\* A page of irregular transactions: missing block time, slot, amount and
\* user accounts; a non-numeric amount, another mint, the same transfer
\* listed twice (once as a string); no tokenTransfers array.
OddPage ==
    << IndexedTx(Signature("odd", 0, 1), 0, 0, TRUE,
                 <<IndexedTransfer(TokenMint, JsUndefined, "", "AliceAta", "", "")>>),
       IndexedTx(Signature("odd", 0, 2), NowSec - 5, StartSlot - 5, TRUE,
                 <<IndexedTransfer("Y", JsNumber(7), OwnerNames[1], "", OwnerNames[2], ""),
                   IndexedTransfer(TokenMint, JsString(<<"a", "b", "c">>),
                                   OwnerNames[1], "", OwnerNames[2], ""),
                   PlainTransfer,
                   IndexedTransfer(TokenMint, JsString(<<"5">>),
                                   OwnerNames[1], "", OwnerNames[2], "")>>),
       IndexedTx(Signature("odd", 0, 3), NowSec - 6, StartSlot - 6, FALSE, <<>>) >>

\* A page that reaches past the cutoff: a recent transaction, one older than
\* the lookback window, and a recent one after it.
AgedPage(p) ==
    << IndexedTx(Signature("aged", p, 1), NowSec - 7, StartSlot - 7, TRUE, <<PlainTransfer>>),
       IndexedTx(Signature("aged", p, 2), NowSec - LookbackSeconds - 10, StartSlot - 200,
                 TRUE, <<PlainTransfer>>),
       IndexedTx(Signature("aged", p, 3), NowSec - 8, StartSlot - 8, TRUE, <<PlainTransfer>>) >>

\* What the index may answer to the request for page p (1-based): res.ok
\* with the transactions, or a response that is not ok.  Past IndexDepth it
\* has nothing new: the last page again, or nothing.
Response(ok, txs) == [ok |-> ok, txs |-> txs]

PageResponses(p) ==
    {Response(FALSE, <<>>), Response(TRUE, <<>>)} \cup
    (IF p <= IndexDepth
     THEN {Response(TRUE, FreshPage(p)), Response(TRUE, OddPage), Response(TRUE, AgedPage(p))}
     ELSE {}) \cup
    (IF p > 1 THEN {Response(TRUE, FreshPage(IF p - 1 <= IndexDepth THEN p - 1 ELSE IndexDepth))}
     ELSE {})

\* The cursor taken from the first transaction of the page.
NextCursor_First(txs) == txs[1].signature

\* before = txs[txs.length - 1]?.signature
NextCursor(txs) == txs[Len(txs)].signature

\* What pageLog keeps of a page request: the cursor of its body
\* (if (before) body.before = before), whether the response was ok, whether
\* the page was empty or held a transaction older than the cutoff, the
\* signature of the page's last transaction, and the records collected once
\* the page was read.
PageRequest(cursor, ok, txs, old, held) ==
    [before |-> cursor, ok |-> ok, empty |-> txs = <<>>, old |-> old,
     last |-> IF txs = <<>> THEN <<>> ELSE txs[Len(txs)].signature,
     held |-> held]

\* tsMs = tx.blockTime ? tx.blockTime * 1000 : 0
TsMs(blockTime) == IF blockTime # 0 THEN blockTime * 1000 ELSE 0

\* The record the indexed search makes of token transfer t of transaction itx.
IndexedRecord(itx, t, now) ==
    TokenTransfer(itx.signature,
                  IF TsMs(itx.blockTime) # 0 THEN TsMs(itx.blockTime) ELSE now,
                  "sent",
                  AmountOfNumber(NumberOrZero(t.tokenAmount)),
                  OrUnknown(t.fromUserAccount, t.fromTokenAccount),
                  OrUnknown(t.toUserAccount, t.toTokenAccount),
                  itx.slot)

\* The records of one indexed transaction: its token transfers of the mint.
RECURSIVE IndexedRecords(_, _, _, _)
IndexedRecords(itx, tokenMint, now, k) ==
    IF ~itx.isArray \/ k > Len(itx.tokenTransfers) THEN <<>>
    ELSE (IF itx.tokenTransfers[k].mint # tokenMint THEN <<>>
          ELSE <<IndexedRecord(itx, itx.tokenTransfers[k], now)>>)
         \o IndexedRecords(itx, tokenMint, now, k + 1)

\* tsMs && tsMs < cutoffTimeMs
OlderThanCutoff(blockTime, cutoffTimeMs) ==
    TsMs(blockTime) # 0 /\ TsMs(blockTime) < cutoffTimeMs

\* The loop over the transactions of a page: the records up to the first
\* transaction older than the cutoff, and whether there was one.
RECURSIVE PageRecords(_, _, _, _, _)
PageRecords(txs, tokenMint, cutoffTimeMs, now, k) ==
    IF k > Len(txs) THEN [records |-> <<>>, stop |-> FALSE]
    ELSE IF OlderThanCutoff(txs[k].blockTime, cutoffTimeMs)
         THEN [records |-> <<>>, stop |-> TRUE]
    ELSE LET rest == PageRecords(txs, tokenMint, cutoffTimeMs, now, k + 1)
         IN  [records |-> IndexedRecords(txs[k], tokenMint, now, 1) \o rest.records,
              stop    |-> rest.stop]

-----------------------------------------------------------------------------
(* Transactions and blocks the RPC node serves                              *)

ChainTransaction(k, shapes, blockTime) ==
    [Transaction(shapes, "distinct", Dec(0), blockTime, TRUE)
        EXCEPT !.signature = Signature("tx", k, 0), !.slot = StartSlot - k]

Loses600 == Shape(<<AmountString(1000)>>, <<AmountString(400)>>, TokenMint)

Gains600 == Shape(<<>>, <<AmountString(600)>>, TokenMint)

ChainTransactions ==
    << ChainTransaction(1, <<Loses600, Gains600>>, NowSec - 10),     \* Alice -> Bob, 600
       ChainTransaction(2, <<Gains600, Loses600>>, NowSec - 5),      \* Bob -> Alice, 600
       ChainTransaction(3, <<Shape(<< <<"a", "b", "c">> >>, <<AmountString(600)>>, TokenMint),
                             Loses600>>, NowSec - 20),               \* Alice's pre-amount is not a number
       ChainTransaction(4, <<Loses600, Gains600>>, 0),               \* no block time
       ChainTransaction(5, <<Loses600, Gains600>>, NowSec - LookbackSeconds - 10) >>  \* before the window

\* What getSignaturesForAddress lists and getParsedTransaction then answers:
\* entry k is transaction k of ChainTransactions; found tells whether
\* getParsedTransaction returns it (or null).
SignatureEntry(k, found) ==
    [signature |-> ChainTransactions[k].signature,
     blockTime |-> ChainTransactions[k].blockTime,
     found     |-> found,
     tx        |-> ChainTransactions[k]]

SignatureEntries ==
    { SignatureEntry(k, TRUE) : k \in 1..Len(ChainTransactions) } \cup { SignatureEntry(1, FALSE) }

\* What getParsedBlock answers: null, or a block with a block time (0: null)
\* and transactions.
NullBlock == [isNull |-> TRUE, blockTime |-> 0, transactions |-> <<>>]

Block(blockTime, txs) == [isNull |-> FALSE, blockTime |-> blockTime, transactions |-> txs]

Blocks ==
    { NullBlock,
      Block(NowSec - 10, <<ChainTransactions[1], ChainTransactions[3]>>),
      Block(NowSec - 20, <<ChainTransactions[2], ChainTransactions[1]>>),
      Block(0, <<ChainTransactions[1]>>),
      Block(NowSec - 30, <<>>),
      Block(NowSec - LookbackSeconds - 10, <<ChainTransactions[5]>>) }

\* Object.assign({}, tx, { slot, blockTime: block.blockTime })
Compat(t, slot, blockTime) == [t EXCEPT !.slot = slot, !.blockTime = blockTime]

\* The records of the transactions of a block, from transaction k on.
RECURSIVE BlockRecords(_, _, _, _)
BlockRecords(block, slot, tokenMint, k) ==
    IF k > Len(block.transactions) THEN <<>>
    ELSE Solana_parseTransactionForTokenTransfers(
             Compat(block.transactions[k], slot, block.blockTime), tokenMint)
         \o BlockRecords(block, slot, tokenMint, k + 1)

-----------------------------------------------------------------------------
(* getTokenTransfersStream: seen, buffer, emit and push                     *)

\* `${t.signature}-${t.fromAddress}-${t.toAddress}-${t.amount}`: signatures
\* and addresses hold no '-', so two keys are the same string exactly when
\* the four parts are the same.
Key(t) == <<t.signature, t.fromAddress, t.toAddress, t.amount>>

StreamState == [seen |-> seen, buffer |-> buffer, batches |-> batches, pushed |-> pushed]

\* emit() without its test of the buffer's length.
emit_Unguarded(st) ==
    [st EXCEPT !.buffer = <<>>, !.batches = Append(@, st.buffer)]

\* emit(): hand the whole buffer to onBatch, unless it is empty.
emit(st) ==
    IF st.buffer = <<>> THEN st
    ELSE [st EXCEPT !.buffer = <<>>, !.batches = Append(@, st.buffer)]

\* push(t)
push(st, t) ==
    LET called == [st EXCEPT !.pushed = Append(@, t)]
    IN  IF Key(t) \in st.seen THEN called
        ELSE IF t.timestamp < CutoffTimeMs THEN called
        ELSE LET added == [called EXCEPT !.seen = @ \cup {Key(t)}, !.buffer = Append(@, t)]
             IN  IF Len(added.buffer) >= FlushThreshold THEN emit(added) ELSE added

\* push(t) for each t of ts, in order.
RECURSIVE pushAll(_, _)
pushAll(st, ts) == IF ts = <<>> THEN st ELSE pushAll(push(st, Head(ts)), Tail(ts))

\* The stream's variables after a step that leaves them as st.
StreamBecomes(st) ==
    /\ seen' = st.seen
    /\ buffer' = st.buffer
    /\ batches' = st.batches
    /\ pushed' = st.pushed

confVars == <<api, scope, rpc>>

loopVars == <<pages, scanned, sigIdx, atasLeft>>

streamVars == <<seen, buffer, batches, pushed>>

batchVars == <<transfers, result>>

failVars == <<raised, error>>

\* What an upstream call may throw: errors are the parts of their message.
UpstreamErrors == {<<"timeout">>, <<"HTTP 500">>}

Failure(call, e) == [call |-> call, e |-> e]

\* getTokenAccounts: catch (error) { throw new Error(`Failed to fetch token accounts: ${error}`) }
TokenAccountsError(e) == <<"Failed to fetch token accounts: ">> \o e

\* What the call throws to the query when e is thrown inside it.
ThrownBy(call, e) == IF call = "getTokenAccounts" THEN TokenAccountsError(e) ELSE e

\* The parsers' variables while a query runs.
NoParse ==
    /\ tx = <<>>
    /\ wallet = NoOwner
    /\ op = "none"
    /\ deltas = <<>>
    /\ records = <<>>

RpcKinds == {"plain", "heliusNoKey", "helius"}

Init ==
    /\ NoParse
    /\ NoDecimals
    /\ NoRetry
    /\ api \in {"batch", "stream"}
    /\ scope \in {NoOwner, OwnerNames[1]}
    /\ rpc \in RpcKinds
    /\ pc = "start"
    /\ pages = 0
    /\ scanned = 0
    /\ sigIdx = 0
    /\ atasLeft = 0
    /\ seen = {}
    /\ buffer = <<>>
    /\ batches = <<>>
    /\ pushed = <<>>
    /\ transfers = <<>>
    /\ result = <<>>
    /\ strategies = <<>>
    /\ raised = NoFailure
    /\ error = <<>>
    /\ NoApp
    /\ NoSample
    /\ NoCursor

\* The stream chooses its first strategy: the wallet's signatures when a
\* wallet is given, else the indexed search when there is a search URL, else
\* the block scan.
StreamStart ==
    /\ api = "stream"
    /\ pc = "start"
    /\ pc' = IF scope # NoOwner THEN "signed"
             ELSE IF rpc = "helius" THEN "indexed"
             ELSE "scan"
    /\ UNCHANGED <<parseVars, decVars, retryVars, appVars, sampleVars, cursorVars, strategies, confVars, failVars, loopVars, streamVars, batchVars>>

\* One signature entry of a list: the transaction is fetched, parsed for the
\* wallet and the record, if any, pushed.
StreamEntry(s) ==
    IF ~s.found THEN StreamState
    ELSE pushAll(StreamState, parseTransactionForTokenTransfer(s.tx, scope, TokenMint))

\* The next entry of the wallet's own signatures.
StreamSigned ==
    /\ api = "stream"
    /\ pc = "signed"
    /\ sigIdx < MaxSigs
    /\ \E s \in SignatureEntries :
        /\ ~OlderThanCutoff(s.blockTime, CutoffTimeMs)
        /\ StreamBecomes(StreamEntry(s))
    /\ sigIdx' = sigIdx + 1
    /\ UNCHANGED <<parseVars, decVars, retryVars, appVars, sampleVars, cursorVars, strategies, confVars, failVars, pc, pages, scanned, atasLeft, batchVars>>

\* The wallet's signatures are over (the list ends, or its next entry is
\* older than the cutoff): getTokenAccounts answers n accounts.
StreamSignedDone ==
    /\ api = "stream"
    /\ pc = "signed"
    /\ \E n \in 0..MaxAtas :
        /\ atasLeft' = n
        /\ IF n = 0
           THEN StreamBecomes(emit(StreamState)) /\ pc' = "resolved"
           ELSE UNCHANGED streamVars /\ pc' = "atas"
    /\ UNCHANGED <<parseVars, decVars, retryVars, appVars, sampleVars, cursorVars, strategies, confVars, failVars, pages, scanned, sigIdx, batchVars>>

\* The next entry of the signatures of the current token account.
StreamAta ==
    /\ api = "stream"
    /\ pc = "atas"
    /\ sigIdx < MaxSigs
    /\ \E s \in SignatureEntries :
        /\ ~OlderThanCutoff(s.blockTime, CutoffTimeMs)
        /\ StreamBecomes(StreamEntry(s))
    /\ sigIdx' = sigIdx + 1
    /\ UNCHANGED <<parseVars, decVars, retryVars, appVars, sampleVars, cursorVars, strategies, confVars, failVars, pc, pages, scanned, atasLeft, batchVars>>

\* The signatures of the current token account are over; after the last
\* account the buffer is flushed and the stream returns.
StreamAtaDone ==
    /\ api = "stream"
    /\ pc = "atas"
    /\ atasLeft' = atasLeft - 1
    /\ IF atasLeft = 1
       THEN StreamBecomes(emit(StreamState)) /\ pc' = "resolved"
       ELSE UNCHANGED streamVars /\ pc' = "atas"
    /\ UNCHANGED <<parseVars, decVars, retryVars, appVars, sampleVars, cursorVars, strategies, confVars, failVars, pages, scanned, sigIdx, batchVars>>

\* The end of the page loop without its emit().
AfterIndexed_NoFlush(st) ==
    /\ StreamBecomes(st)
    /\ pc' = IF st.seen # {} THEN "resolved" ELSE "scan"

\* The end of the page loop without if (seen.size > 0) return.
AfterIndexed_AlwaysScan(st) ==
    /\ StreamBecomes(emit(st))
    /\ pc' = "scan"

\* After the page loop: emit(); if (seen.size > 0) return; else the block scan.
AfterIndexed(st) ==
    LET flushed == emit(st)
    IN  /\ StreamBecomes(flushed)
        /\ pc' = IF flushed.seen # {} THEN "resolved" ELSE "scan"

\* One page of the indexed search.
StreamIndexedPage ==
    /\ api = "stream"
    /\ pc = "indexed"
    /\ pages < StreamMaxPages
    /\ \E res \in PageResponses(pages + 1), now \in Clock :
        IF ~res.ok \/ res.txs = <<>>
        THEN /\ pages' = pages
             /\ before' = before
             /\ pageLog' = Append(pageLog, PageRequest(before, res.ok, <<>>, FALSE, Len(pushed)))
             /\ AfterIndexed(StreamState)
        ELSE LET page == PageRecords(res.txs, TokenMint, CutoffTimeMs, now, 1)
                 st   == pushAll(StreamState, page.records)
                 \* pages = 10; break; and then the loop's pages++
                 pg   == IF page.stop THEN StreamMaxPages + 1 ELSE pages + 1
             IN  /\ pages' = pg
                 /\ before' = NextCursor(res.txs)
                 /\ pageLog' = Append(pageLog, PageRequest(before, TRUE, res.txs, page.stop,
                                                          Len(st.pushed)))
                 /\ IF pg >= StreamMaxPages
                    THEN AfterIndexed(st)
                    ELSE StreamBecomes(st) /\ pc' = pc
    /\ UNCHANGED <<parseVars, decVars, retryVars, appVars, sampleVars, strategies, confVars, failVars, scanned, sigIdx, atasLeft, batchVars>>

\* After the block loop: emit() and return.
AfterScan(st) ==
    /\ StreamBecomes(emit(st))
    /\ pc' = "resolved"

\* One slot of the block scan.
StreamScanBlock ==
    /\ api = "stream"
    /\ pc = "scan"
    /\ scanned < StreamMaxBlocks
    /\ scanned < ChainDepth
    /\ \E block \in Blocks :
        IF ~block.isNull /\ OlderThanCutoff(block.blockTime, CutoffTimeMs)
        THEN /\ scanned' = scanned
             /\ AfterScan(StreamState)
        ELSE LET st == IF block.isNull THEN StreamState
                       ELSE emit(pushAll(StreamState,
                                         BlockRecords(block, StartSlot - scanned, TokenMint, 1)))
             IN  /\ scanned' = scanned + 1
                 /\ IF scanned + 1 >= StreamMaxBlocks
                    THEN AfterScan(st)
                    ELSE StreamBecomes(st) /\ pc' = pc
    /\ UNCHANGED <<parseVars, decVars, retryVars, appVars, sampleVars, cursorVars, strategies, confVars, failVars, pages, sigIdx, atasLeft, batchVars>>

\* All the slots further down are skipped slots (getParsedBlock answers
\* null for each): the loop runs to maxBlocks without touching anything else.
StreamScanSkipped ==
    /\ api = "stream"
    /\ pc = "scan"
    /\ scanned >= ChainDepth
    /\ scanned < StreamMaxBlocks
    /\ scanned' = StreamMaxBlocks
    /\ AfterScan(StreamState)
    /\ UNCHANGED <<parseVars, decVars, retryVars, appVars, sampleVars, cursorVars, strategies, confVars, failVars, pages, sigIdx, atasLeft, batchVars>>

\* The upstream calls the stream awaits at pc.
StreamCalls(at) ==
    CASE at = "signed"  -> {"getSignaturesForAddress", "getParsedTransaction", "getTokenAccounts"}
      [] at = "atas"    -> {"getSignaturesForAddress", "getParsedTransaction"}
      [] at = "indexed" -> {"fetch"}
      [] at = "scan"    -> {"getSlot", "getParsedBlock"}
      [] OTHER          -> {}

\* The catch of the stream with the flush left out.
Catch_NoFlush(st) == st

\* catch (e) { emit(); ... }
Catch(st) == emit(st)

\* A call of the RPC node or of the index throws: catch (e) { emit(); throw e; }
StreamThrow ==
    /\ api = "stream"
    /\ \E call \in StreamCalls(pc), e \in UpstreamErrors :
        /\ call = "getSlot" => scanned = 0
        /\ call = "getParsedBlock" => scanned < StreamMaxBlocks
        /\ raised' = Failure(call, e)
        /\ error' = ThrownBy(call, e)
    /\ StreamBecomes(Catch(StreamState))
    /\ pc' = "rejected"
    /\ UNCHANGED <<parseVars, decVars, retryVars, appVars, sampleVars, cursorVars, strategies, confVars, loopVars, batchVars>>

-----------------------------------------------------------------------------
(* getTokenTransfers: the strategies collect into transfers; the list is    *)
(* deduplicated and sorted before it is returned.                           *)

BatchMaxPages == 5           \* pages < 5

BatchMaxTransfers == 200     \* transfers.length < 200, transfers.length >= 200

BatchMaxBlocks == 120        \* maxBlocks of the batch block scan

\* Math.ceil(lookbackSeconds / 60)
LookbackMinutes == (LookbackSeconds + 59) \div 60

\* cutoffTime = Date.now() - lookbackMinutes * 60 * 1000
CutoffTimeMinutesMs == NowMs - LookbackMinutes * 60 * 1000

\* deduplicateTransfers from element k on, with the keys already seen.
RECURSIVE DedupFrom(_, _, _)
DedupFrom(ts, k, seenKeys) ==
    IF k > Len(ts) THEN <<>>
    ELSE IF Key(ts[k]) \in seenKeys THEN DedupFrom(ts, k + 1, seenKeys)
    ELSE <<ts[k]>> \o DedupFrom(ts, k + 1, seenKeys \cup {Key(ts[k])})

\* A filter that only drops a record equal in key to the one just before it.
deduplicateTransfers_Adjacent(ts) ==
    LET keep == SelectSeq([k \in 1..Len(ts) |-> k],
                          LAMBDA k : ~(k > 1 /\ Key(ts[k]) = Key(ts[k - 1])))
    IN  [i \in 1..Len(keep) |-> ts[keep[i]]]

(* SolanaService.deduplicateTransfers *)
deduplicateTransfers(ts) == DedupFrom(ts, 1, {})

\* Insert t behind every record that does not sort after it.
RECURSIVE InsertByTimestamp(_, _)
InsertByTimestamp(sorted, t) ==
    IF sorted = <<>> THEN <<t>>
    ELSE IF Head(sorted).timestamp >= t.timestamp
         THEN <<Head(sorted)>> \o InsertByTimestamp(Tail(sorted), t)
    ELSE <<t>> \o sorted

\* The list left in the order it was collected in.
SortByTimestampDesc_Skipped(ts) == ts

\* uniqueTransfers.sort((a, b) => b.timestamp - a.timestamp): a stable sort.
RECURSIVE SortByTimestampDesc(_)
SortByTimestampDesc(ts) ==
    IF ts = <<>> THEN <<>>
    ELSE InsertByTimestamp(SortByTimestampDesc(SubSeq(ts, 1, Len(ts) - 1)), ts[Len(ts)])

\* getTokenTransfers returns: dedup, sort, return.
Return(ts) ==
    /\ transfers' = ts
    /\ result' = SortByTimestampDesc(deduplicateTransfers(ts))
    /\ pc' = "returned"

\* catch (error) { throw error }: the error is rethrown as it came.
BatchError_Rethrown(e) == e

\* getTokenTransfers: catch (error) { throw new Error(`Failed to fetch token transfers: ${error}`) }
BatchError(e) == <<"Failed to fetch token transfers: ">> \o e

\* `${error}` of an Error the service itself constructed with message msg
ErrorString(msg) == <<"Error: ">> \o msg

\* The connection test: getSlot answers, or the query fails with
\* new Error('RPC connection failed').
BatchConnect ==
    /\ api = "batch"
    /\ pc = "start"
    /\ \/ /\ pc' = IF scope # NoOwner THEN "accounts"
                    ELSE IF rpc # "plain" THEN "search"
                    ELSE "blocks"
          /\ UNCHANGED failVars
       \/ \E e \in UpstreamErrors :
            /\ pc' = "rejected"
            /\ raised' = Failure("getSlot", e)
            /\ error' = BatchError(ErrorString(<<"RPC connection failed">>))
    /\ UNCHANGED <<parseVars, decVars, retryVars, appVars, sampleVars, cursorVars, strategies, confVars, loopVars, streamVars, batchVars>>

\* getWalletTokenTransfers: getTokenAccounts answers n accounts, or throws
\* and the query fails.
BatchTokenAccounts ==
    /\ api = "batch"
    /\ pc = "accounts"
    /\ \/ \E n \in 0..MaxAtas : atasLeft' = n /\ pc' = "signed" /\ UNCHANGED failVars
       \/ \E e \in UpstreamErrors :
            /\ atasLeft' = atasLeft
            /\ pc' = "rejected"
            /\ raised' = Failure("getTokenAccounts", e)
            /\ error' = BatchError(ErrorString(TokenAccountsError(e)))
    /\ UNCHANGED <<parseVars, decVars, retryVars, appVars, sampleVars, cursorVars, strategies, confVars, pages, scanned, sigIdx, streamVars, batchVars>>

\* sig.blockTime && sig.blockTime * 1000 > cutoffTime
Recent(s) == s.blockTime # 0 /\ s.blockTime * 1000 > CutoffTimeMinutesMs

\* One entry of a signature list in getSignedTransactions or
\* getTokenAccountTransactions: entries that are not recent are filtered
\* out; a fetch that throws is logged and skipped.
BatchEntry(s, threw) ==
    IF ~Recent(s) \/ threw \/ ~s.found THEN <<>>
    ELSE parseTransactionForTokenTransfer(s.tx, scope, TokenMint)

\* The next entry of the wallet's own signatures (the lists here are shorter
\* than maxTransactionsToProcess).
BatchSigned ==
    /\ api = "batch"
    /\ pc = "signed"
    /\ sigIdx < MaxSigs
    /\ \E s \in SignatureEntries, threw \in BOOLEAN :
        transfers' = transfers \o BatchEntry(s, threw)
    /\ sigIdx' = sigIdx + 1
    /\ UNCHANGED <<parseVars, decVars, retryVars, appVars, sampleVars, cursorVars, strategies, confVars, failVars, pc, pages, scanned, atasLeft, streamVars, result>>

\* The wallet's signatures are over (or getSignaturesForAddress threw before
\* any): on to the token accounts, or return when there is none.
BatchSignedDone ==
    /\ api = "batch"
    /\ pc = "signed"
    /\ IF atasLeft = 0 THEN Return(transfers)
       ELSE pc' = "atas" /\ UNCHANGED batchVars
    /\ UNCHANGED <<parseVars, decVars, retryVars, appVars, sampleVars, cursorVars, strategies, confVars, failVars, loopVars, streamVars>>

\* The next entry of the signatures of the current token account.
BatchAta ==
    /\ api = "batch"
    /\ pc = "atas"
    /\ sigIdx < MaxSigs
    /\ \E s \in SignatureEntries, threw \in BOOLEAN :
        transfers' = transfers \o BatchEntry(s, threw)
    /\ sigIdx' = sigIdx + 1
    /\ UNCHANGED <<parseVars, decVars, retryVars, appVars, sampleVars, cursorVars, strategies, confVars, failVars, pc, pages, scanned, atasLeft, streamVars, result>>

\* The signatures of the current token account are over.
BatchAtaDone ==
    /\ api = "batch"
    /\ pc = "atas"
    /\ atasLeft' = atasLeft - 1
    /\ IF atasLeft = 1 THEN Return(transfers)
       ELSE pc' = "atas" /\ UNCHANGED batchVars
    /\ UNCHANGED <<parseVars, decVars, retryVars, appVars, sampleVars, cursorVars, strategies, confVars, failVars, pages, scanned, sigIdx, streamVars>>

\* A strategy of getRecentTokenTransfersBySeconds has returned ts.
Returned(strategy, ts) ==
    strategies' = Append(strategies, [strategy |-> strategy, records |-> ts])

\* The block scan is run whatever the indexed search returned, on top of it.
AfterSearch_Always(ts) ==
    /\ Returned("indexed-search", ts)
    /\ transfers' = ts /\ pc' = "blocks" /\ UNCHANGED result

\* getRecentTokenTransfersBySeconds after the indexed search returned ts:
\* if (helius.length > 0) return helius; else the block scan.
AfterSearch(ts) ==
    /\ Returned("indexed-search", ts)
    /\ IF Len(ts) > 0 THEN Return(ts)
       ELSE transfers' = <<>> /\ pc' = "blocks" /\ UNCHANGED result

\* One page of getTransfersWithHeliusSearchBySeconds.  Without a search URL,
\* on a response that is not ok and on a fetch that throws, the search
\* returns [].
BatchSearchPage ==
    /\ api = "batch"
    /\ pc = "search"
    /\ pages < BatchMaxPages
    /\ Len(transfers) < BatchMaxTransfers
    /\ \E res \in PageResponses(pages + 1), now \in Clock, threw \in BOOLEAN :
        IF rpc # "helius" \/ threw \/ ~res.ok
        THEN /\ pages' = pages
             /\ before' = before
             /\ pageLog' = IF rpc # "helius" THEN pageLog
                           ELSE Append(pageLog, PageRequest(before, FALSE, <<>>, FALSE,
                                                            Len(transfers)))
             /\ AfterSearch(<<>>)
        ELSE IF res.txs = <<>>
        THEN /\ pages' = pages
             /\ before' = before
             /\ pageLog' = Append(pageLog, PageRequest(before, TRUE, <<>>, FALSE, Len(transfers)))
             /\ AfterSearch(transfers)
        ELSE LET page == PageRecords(res.txs, TokenMint, CutoffTimeMs, now, 1)
                 ts   == transfers \o page.records
                 \* pages = 5; break; and then pages += 1
                 pg   == IF page.stop THEN BatchMaxPages + 1 ELSE pages + 1
             IN  /\ pages' = pg
                 /\ before' = NextCursor(res.txs)
                 /\ pageLog' = Append(pageLog, PageRequest(before, TRUE, res.txs, page.stop,
                                                          Len(ts)))
                 /\ IF pg >= BatchMaxPages \/ Len(ts) >= BatchMaxTransfers
                    THEN AfterSearch(ts)
                    ELSE transfers' = ts /\ UNCHANGED <<pc, result, strategies>>
    /\ UNCHANGED <<parseVars, decVars, retryVars, appVars, sampleVars, confVars, failVars, scanned, sigIdx, atasLeft, streamVars>>

\* After getTransfersByScanningBlocks returned ts:
\* if (scanned.length > 0) return scanned; else the sampling.
AfterBlocks(ts) ==
    /\ Returned("block-scan", ts)
    /\ IF Len(ts) > 0 THEN Return(ts)
       ELSE transfers' = <<>> /\ pc' = "sample" /\ UNCHANGED result

\* One slot of getTransfersByScanningBlocks; a getParsedBlock that throws is
\* skipped; a getSlot that throws ends the scan with [].
BatchScanBlock ==
    /\ api = "batch"
    /\ pc = "blocks"
    /\ scanned < BatchMaxBlocks
    /\ scanned < ChainDepth
    /\ \E block \in Blocks, threw \in {"no", "getSlot", "getParsedBlock"} :
        IF threw = "getSlot"
        THEN /\ scanned = 0
             /\ scanned' = scanned
             /\ AfterBlocks(<<>>)
        ELSE IF threw = "no" /\ ~block.isNull /\ OlderThanCutoff(block.blockTime, CutoffTimeMs)
        THEN /\ scanned' = scanned
             /\ AfterBlocks(transfers)
        ELSE LET ts == IF threw # "no" \/ block.isNull THEN transfers
                       ELSE transfers \o BlockRecords(block, StartSlot - scanned, TokenMint, 1)
             IN  /\ scanned' = scanned + 1
                 /\ IF scanned + 1 >= BatchMaxBlocks \/
                       (threw = "no" /\ ~block.isNull /\ block.transactions # <<>>
                          /\ Len(ts) >= BatchMaxTransfers)
                    THEN AfterBlocks(ts)
                    ELSE transfers' = ts /\ UNCHANGED <<pc, result, strategies>>
    /\ UNCHANGED <<parseVars, decVars, retryVars, appVars, sampleVars, cursorVars, confVars, failVars, pages, sigIdx, atasLeft, streamVars>>

\* All the slots further down are skipped slots: the loop runs to maxBlocks.
BatchScanSkipped ==
    /\ api = "batch"
    /\ pc = "blocks"
    /\ scanned >= ChainDepth
    /\ scanned < BatchMaxBlocks
    /\ scanned' = BatchMaxBlocks
    /\ AfterBlocks(transfers)
    /\ UNCHANGED <<parseVars, decVars, retryVars, appVars, sampleVars, cursorVars, confVars, failVars, pages, sigIdx, atasLeft, streamVars>>

\* One sampled transaction of getTransfersWithStandardRPC (the accounts and
\* signatures here are fewer than the sampling caps): parsed when it is
\* found, has a block time and is not older than the cutoff in minutes.
BatchSample ==
    /\ api = "batch"
    /\ pc = "sample"
    /\ sigIdx < MaxSigs
    /\ \E s \in SignatureEntries, threw \in BOOLEAN :
        transfers' = transfers \o
            (IF s.found /\ ~threw /\ s.tx.blockTime # 0
                /\ s.tx.blockTime * 1000 >= CutoffTimeMinutesMs
             THEN Solana_parseTransactionForTokenTransfers(s.tx, TokenMint)
             ELSE <<>>)
    /\ sigIdx' = sigIdx + 1
    /\ UNCHANGED <<parseVars, decVars, retryVars, appVars, sampleVars, cursorVars, strategies, confVars, failVars, pc, pages, scanned, atasLeft, streamVars, result>>

\* The sampling is over (no account left, or getProgramAccounts answered
\* none or threw before any).
BatchSampleDone ==
    /\ api = "batch"
    /\ pc = "sample"
    /\ Returned("sampling", transfers)
    /\ Return(transfers)
    /\ UNCHANGED <<parseVars, decVars, retryVars, appVars, sampleVars, cursorVars, confVars, failVars, loopVars, streamVars>>

Next ==
    \/ StreamStart
    \/ StreamSigned
    \/ StreamSignedDone
    \/ StreamAta
    \/ StreamAtaDone
    \/ StreamIndexedPage
    \/ StreamScanBlock
    \/ StreamScanSkipped
    \/ StreamThrow
    \/ BatchConnect
    \/ BatchTokenAccounts
    \/ BatchSigned
    \/ BatchSignedDone
    \/ BatchAta
    \/ BatchAtaDone
    \/ BatchSearchPage
    \/ BatchScanBlock
    \/ BatchScanSkipped
    \/ BatchSample
    \/ BatchSampleDone

Spec == Init /\ [][Next]_vars

-----------------------------------------------------------------------------
(* What a transaction says, read off its snapshots without the parsers      *)

RawValues == {0, 5, 9, 100, 250, 400, 600, 1000, 1999}

RECURSIVE Pow10(_)
Pow10(n) == IF n = 0 THEN 1 ELSE 10 * Pow10(n - 1)

\* amt is the number raw / 10^d
AmountIs(amt, raw, d) == ~amt.nan /\ amt.m * Pow10(d) = raw * Pow10(amt.e)

AmountPositive(amt) == ~amt.nan /\ amt.m > 0

OfMint(snaps) == {k \in 1..Len(snaps) : snaps[k].mint = TokenMint}

AtAccount(snaps, i) == {k \in OfMint(snaps) : snaps[k].accountIndex = i}

\* The decimals the snapshots of the mint declare; 6 when none does.
ExpectedDecimals(t) ==
    LET all  == t.pre \o t.post
        decl == {all[k].decimals.v : k \in {j \in OfMint(all) : all[j].decimals.kind = "num"}}
    IN  IF decl = {} THEN 6 ELSE CHOOSE d \in decl : TRUE

SenderIdx == {k \in 1..Len(deltas) : IsNegative(deltas[k].change)}

ReceiverIdx == {k \in 1..Len(deltas) : IsPositive(deltas[k].change)}

Min2(a, b) == IF a <= b THEN a ELSE b

Timed == tx.hasMeta /\ tx.blockTime # 0

-----------------------------------------------------------------------------
(* C2.  Delta correctness: for every account of the target mint that has a *)
(* post-snapshot with an owner E, whose raw balance goes from a (0 without  *)
(* a pre-snapshot) to b: when a # b each extractor emits exactly one        *)
(* BalanceDelta for that account, it names E and has signedChange = b - a,  *)
(* and it is the only delta of E when E holds no other account of the mint; *)
(* when a = b the account gets none.                                        *)
OwnsOneAccount(e) ==
    Cardinality({s.accountIndex : s \in {tx.pre[k] : k \in {j \in OfMint(tx.pre) : tx.pre[j].owner = e}}
                                       \cup {tx.post[k] : k \in {j \in OfMint(tx.post) : tx.post[j].owner = e}}}) = 1

ClosureHandling ==
    op \in {"extractSolana", "extractParser"} =>
        \A k \in OfMint(tx.pre) : \A a \in RawValues :
            ( /\ tx.pre[k].owner # NoOwner
              /\ a > 0
              /\ tx.pre[k].amount = AmountString(a)
              /\ \A j \in 1..Len(tx.post) : tx.post[j].accountIndex # tx.pre[k].accountIndex ) =>
            \E d \in 1..Len(deltas) :
                deltas[d].owner = tx.pre[k].owner /\ deltas[d].change = Num(0 - a)


-----------------------------------------------------------------------------
\* Some record pairs sender delta s with receiver delta r.
Paired(s, r) ==
    \E n \in 1..Len(records) :
        /\ records[n].fromAddress = deltas[s].owner
        /\ records[n].toAddress = deltas[r].owner
        /\ AmountIs(records[n].amount, NumAbs(deltas[s].change).v, ExpectedDecimals(tx))

\* | |senderChange| - |receiverChange| | <= 0.001 * max(|senderChange|, |receiverChange|)
Tolerated(s, r) ==
    LET sa == 0 - deltas[s].change.v
        ra == deltas[r].change.v
    IN  1000 * (IF sa >= ra THEN sa - ra ELSE ra - sa) <= (IF sa >= ra THEN sa ELSE ra)

(* C4 as claimed.  In the pairing loop of SolanaService, on a transaction   *)
(* that carries a block time and in which every entity has one delta, a     *)
(* sender delta and a receiver delta are paired into a record if and only   *)
(* if they are within the 0.1% tolerance.                                   *)
PairedIffTolerated ==
    (op = "unscopedSolana" /\ Timed
        /\ Cardinality({deltas[k].owner : k \in 1..Len(deltas)}) = Len(deltas)) =>
        \A s \in SenderIdx, r \in ReceiverIdx : Paired(s, r) <=> Tolerated(s, r)

(* C4 as amended.  Every record of the pairing loop pairs a sender delta    *)
(* with a receiver delta that are within tolerance; of a sender and a       *)
(* receiver within tolerance at least one owner is consumed by a pairing    *)
(* (first match wins, a consumed owner is not paired again); so when they   *)
(* are the only two deltas they are paired exactly when within tolerance:   *)
(* -1000 / +999 at decimals 0 gives one record of amount 1000, and          *)
(* -1000 / +900 gives none.                                                 *)
PairedGreedyWithinTolerance ==
    op = "unscopedSolana" =>
        /\ \A n \in 1..Len(records) :
               \E s \in SenderIdx, r \in ReceiverIdx :
                   /\ Tolerated(s, r)
                   /\ records[n].fromAddress = deltas[s].owner
                   /\ records[n].toAddress = deltas[r].owner
                   /\ AmountIs(records[n].amount, 0 - deltas[s].change.v, ExpectedDecimals(tx))
        /\ Timed =>
               \A s \in SenderIdx, r \in ReceiverIdx :
                   Tolerated(s, r) =>
                       \/ \E n \in 1..Len(records) : records[n].fromAddress = deltas[s].owner
                       \/ \E n \in 1..Len(records) : records[n].toAddress = deltas[r].owner
        /\ (Timed /\ Len(deltas) = 2 /\ Cardinality(SenderIdx) = 1 /\ Cardinality(ReceiverIdx) = 1) =>
               \A s \in SenderIdx, r \in ReceiverIdx :
                   /\ Len(records) = (IF Tolerated(s, r) THEN 1 ELSE 0)
                   /\ Tolerated(s, r) => Paired(s, r)
                   /\ ( /\ deltas[s].change = Num(0 - 1000)
                        /\ deltas[r].change = Num(999)
                        /\ ExpectedDecimals(tx) = 0 ) =>
                          Len(records) = 1 /\ records[1].amount = [nan |-> FALSE, m |-> 1000, e |-> 0]
                   /\ (deltas[s].change = Num(0 - 1000) /\ deltas[r].change = Num(900)) =>
                          records = <<>>

\* -1000 and +999 at decimals 0 were the only deltas and gave one record of 1000.
PairedWitness ==
    /\ op = "unscopedSolana"
    /\ Len(deltas) = 2
    /\ \E s \in SenderIdx, r \in ReceiverIdx :
           deltas[s].change = Num(0 - 1000) /\ deltas[r].change = Num(999)
    /\ Len(records) = 1
    /\ records[1].amount = [nan |-> FALSE, m |-> 1000, e |-> 0]

-----------------------------------------------------------------------------
\* The raw value of account i on one side: 0 without a snapshot.
ValueAt(snaps, i) ==
    IF AtAccount(snaps, i) = {} THEN 0
    ELSE CHOOSE n \in RawValues : \A k \in AtAccount(snaps, i) : snaps[k].amount = AmountString(n)

\* Every snapshot of the mint has an owner and a numeric raw amount.
Regular(t) ==
    \A snaps \in {t.pre, t.post} : \A k \in OfMint(snaps) :
        /\ snaps[k].owner # NoOwner
        /\ \E n \in RawValues : snaps[k].amount = AmountString(n)

AccountsOf(t, e) ==
    {t.pre[k].accountIndex : k \in {j \in OfMint(t.pre) : t.pre[j].owner = e}}
    \cup {t.post[k].accountIndex : k \in {j \in OfMint(t.post) : t.post[j].owner = e}}

RECURSIVE SumChange(_, _)
SumChange(t, accts) ==
    IF accts = {} THEN 0
    ELSE LET i == CHOOSE x \in accts : TRUE
         IN  ValueAt(t.post, i) - ValueAt(t.pre, i) + SumChange(t, accts \ {i})

\* The net raw change of entity e in transaction t.
EntityChange(t, e) == SumChange(t, AccountsOf(t, e))

Entities(t) ==
    {t.pre[k].owner : k \in OfMint(t.pre)} \cup {t.post[k].owner : k \in OfMint(t.post)}

(* C5 as claimed.  On a transaction with a block time in which exactly one  *)
(* entity S loses x raw units and exactly one other entity R gains x,       *)
(* unscoped synthesis returns exactly one record, from S to R, of amount    *)
(* x / 10^decimals.                                                         *)
OneToOneReconstruction ==
    (op \in {"unscopedSolana", "unscopedParser"} /\ Timed /\ Regular(tx)) =>
        \A S, R \in Entities(tx) :
            ( /\ S # R
              /\ EntityChange(tx, S) < 0
              /\ EntityChange(tx, R) = 0 - EntityChange(tx, S)
              /\ \A e \in Entities(tx) \ {S, R} : EntityChange(tx, e) = 0 ) =>
            /\ Len(records) = 1
            /\ records[1].fromAddress = S
            /\ records[1].toAddress = R
            /\ AmountIs(records[1].amount, EntityChange(tx, R), ExpectedDecimals(tx))

-----------------------------------------------------------------------------
(* C6 as claimed.  Unscoped synthesis, in SolanaService as in               *)
(* TransactionParser, never returns more records than                       *)
(* min(#senders, #receivers).                                               *)
AtMostMinSendersReceivers ==
    op \in {"unscopedSolana", "unscopedParser"} =>
        Len(records) <= Min2(Cardinality(SenderIdx), Cardinality(ReceiverIdx))

(* C6 as amended.  In the pairing loop of SolanaService the records never   *)
(* exceed min(#senders, #receivers), an owner none of whose sender          *)
(* (receiver) deltas has a partner within tolerance is on the from (to)     *)
(* side of no record, and three senders with one receiver that matches      *)
(* exactly one of them give exactly one record.                             *)
UnpairedDropped ==
    op = "unscopedSolana" =>
        /\ Len(records) <= Min2(Cardinality(SenderIdx), Cardinality(ReceiverIdx))
        /\ \A s \in SenderIdx :
               (\A s2 \in SenderIdx : deltas[s2].owner = deltas[s].owner =>
                                          \A r \in ReceiverIdx : ~Tolerated(s2, r)) =>
               \A n \in 1..Len(records) : records[n].fromAddress # deltas[s].owner
        /\ \A r \in ReceiverIdx :
               (\A r2 \in ReceiverIdx : deltas[r2].owner = deltas[r].owner =>
                                            \A s \in SenderIdx : ~Tolerated(s, r2)) =>
               \A n \in 1..Len(records) : records[n].toAddress # deltas[r].owner
        /\ ( /\ Timed
             /\ Cardinality(SenderIdx) = 3
             /\ Cardinality(ReceiverIdx) = 1
             /\ \A r \in ReceiverIdx : Cardinality({s \in SenderIdx : Tolerated(s, r)}) = 1 ) =>
               Len(records) = 1

\* Scenario D: three senders, one receiver, one record.
UnpairedDroppedWitness ==
    /\ op = "unscopedSolana"
    /\ Cardinality(SenderIdx) = 3
    /\ Cardinality(ReceiverIdx) = 1
    /\ \A r \in ReceiverIdx : Cardinality({s \in SenderIdx : Tolerated(s, r)}) = 1
    /\ Len(records) = 1


-----------------------------------------------------------------------------
\* First index of a set of indexes; 0 for the empty set.
Least(idx) == IF idx = {} THEN 0 ELSE CHOOSE x \in idx : \A y \in idx : x <= y

WalletIdx == {k \in 1..Len(deltas) : deltas[k].owner = wallet}

\* The record scoped synthesis owes for W's change c and the other side.
ScopedRecordIs(rec, c, other) ==
    /\ rec.direction = (IF IsPositive(c) THEN "received" ELSE "sent")
    /\ IF c.nan THEN rec.amount.nan
       ELSE AmountIs(rec.amount, NumAbs(c).v, ExpectedDecimals(tx))
    /\ rec.fromAddress = (IF IsPositive(c) THEN other ELSE wallet)
    /\ rec.toAddress = (IF IsPositive(c) THEN wallet ELSE other)

(* C7 as claimed.  Scoped to W, a transaction gives no record when W has no *)
(* BalanceDelta and otherwise exactly one: received iff W's change is       *)
(* positive, of amount |change| / 10^decimals, W on its side, the other     *)
(* side the owner of the first delta of the opposite sign, or 'Unknown'.    *)
ScopedSynthesis ==
    op = "scoped" =>
        IF WalletIdx = {} THEN records = <<>>
        ELSE LET c        == deltas[Least(WalletIdx)].change
                 opposite == {k \in 1..Len(deltas) :
                                 \/ IsPositive(c) /\ IsNegative(deltas[k].change)
                                 \/ IsNegative(c) /\ IsPositive(deltas[k].change)}
                 other    == IF opposite = {} THEN Unknown ELSE deltas[Least(opposite)].owner
             IN  Len(records) = 1 /\ ScopedRecordIs(records[1], c, other)

(* C7 as amended.  A transaction without meta or without a block time gives *)
(* no record; otherwise as claimed, with W's change the change of W's first *)
(* delta and the other side the owner of the first delta that belongs to    *)
(* another owner and whose sign differs from that of W's change.            *)
ScopedSynthesisTimed ==
    op = "scoped" =>
        IF WalletIdx = {} \/ ~Timed THEN records = <<>>
        ELSE LET c        == deltas[Least(WalletIdx)].change
                 opposite == {k \in 1..Len(deltas) :
                                 /\ deltas[k].owner # wallet
                                 /\ \/ c.nan
                                    \/ deltas[k].change.nan
                                    \/ IsPositive(c) /\ IsNegative(deltas[k].change)
                                    \/ IsNegative(c) /\ IsPositive(deltas[k].change)}
                 other    == IF opposite = {} THEN Unknown ELSE deltas[Least(opposite)].owner
             IN  Len(records) = 1 /\ ScopedRecordIs(records[1], c, other)

\* Scenario B: scoped to Bob, received 600 from Alice.
ScopedSynthesisWitness ==
    /\ op = "scoped"
    /\ wallet = "Bob"
    /\ Len(records) = 1
    /\ records[1].direction = "received"
    /\ records[1].amount = [nan |-> FALSE, m |-> 600, e |-> 0]
    /\ records[1].fromAddress = "Alice"
    /\ records[1].toAddress = "Bob"

-----------------------------------------------------------------------------
(* The queries                                                              *)

RECURSIVE Flatten(_)
Flatten(bs) == IF bs = <<>> THEN <<>> ELSE Head(bs) \o Flatten(Tail(bs))

\* Everything onBatch has been given so far, in order.
Delivered == Flatten(batches)

NoTwoWithOneKey(ts) ==
    \A i, j \in 1..Len(ts) : i < j => Key(ts[i]) # Key(ts[j])

\* C1: amount positivity on every synthesis path: no record returned by
\* getTokenTransfers or delivered to onBatch by getTokenTransfersStream has an
\* amount that is NaN or not positive.
AmountPositivity ==
    /\ \A k \in 1..Len(result) : AmountPositive(result[k].amount)
    /\ \A k \in 1..Len(Delivered) : AmountPositive(Delivered[k].amount)

\* C8: dedup idempotence: merging a list of collected records into the empty
\* result set and then merging it again gives what merging it once gives,
\* also when the list holds one key twice; in the stream, pushing a record
\* that has been pushed before changes neither the seen set, the buffer nor
\* what onBatch gets, and no key is delivered twice.
DedupIdempotence ==
    /\ deduplicateTransfers(deduplicateTransfers(transfers) \o transfers)
          = deduplicateTransfers(transfers)
    /\ \A i \in 1..Len(pushed) :
          LET again == push(StreamState, pushed[i])
          IN  /\ again.seen = seen
              /\ again.buffer = buffer
              /\ again.batches = batches
    /\ NoTwoWithOneKey(Delivered \o buffer)

\* A batch query returned after it collected one key more than once.
DedupIdempotenceWitness ==
    /\ api = "batch"
    /\ pc = "returned"
    /\ Len(result) >= 2
    /\ Len(result) < Len(transfers)

\* The first record of ts with the key of t.
FirstWithKey(ts, t) ==
    ts[CHOOSE i \in 1..Len(ts) :
           /\ Key(ts[i]) = Key(t)
           /\ \A j \in 1..(i - 1) : Key(ts[j]) # Key(t)]

\* C9: batch result shape: the list getTokenTransfers returns holds no two
\* records with one composite key, holds for every key collected the record
\* collected first with it, and is ordered by non-increasing timestamp.
BatchResultShape ==
    (api = "batch" /\ pc = "returned") =>
        /\ NoTwoWithOneKey(result)
        /\ \A i \in 1..Len(transfers) :
              \E k \in 1..Len(result) : Key(result[k]) = Key(transfers[i])
        /\ \A k \in 1..Len(result) :
              /\ \E i \in 1..Len(transfers) : Key(transfers[i]) = Key(result[k])
              /\ result[k] = FirstWithKey(transfers, result[k])
        /\ \A k \in 1..(Len(result) - 1) :
              result[k].timestamp >= result[k + 1].timestamp

\* A batch query returned after it collected, out of order, two records with
\* one key that differ (in their timestamps).
BatchResultShapeWitness ==
    /\ api = "batch"
    /\ pc = "returned"
    /\ \E i, j \in 1..Len(transfers) :
          i < j /\ Key(transfers[i]) = Key(transfers[j]) /\ transfers[i] # transfers[j]
    /\ \E i \in 1..(Len(transfers) - 1) :
          transfers[i].timestamp < transfers[i + 1].timestamp

\* Record i of what push() was called with passes the filters of push(): it
\* is not older than the cutoff and no record before it with its key was.
Accepted(i) ==
    /\ pushed[i].timestamp >= CutoffTimeMs
    /\ \A j \in 1..(i - 1) :
          Key(pushed[j]) = Key(pushed[i]) => pushed[j].timestamp < CutoffTimeMs

AcceptedRecords ==
    LET idx == SelectSeq([i \in 1..Len(pushed) |-> i], LAMBDA i : Accepted(i))
    IN  [k \in 1..Len(idx) |-> pushed[idx[k]]]

\* C10: final flush on completion: when getTokenTransfersStream has
\* resolved, the buffer is empty and the batches handed to onBatch hold every
\* record that passed the seen set and the cutoff exactly once.
FinalFlush ==
    (api = "stream" /\ pc = "resolved") =>
        /\ buffer = <<>>
        /\ Delivered = AcceptedRecords
        /\ NoTwoWithOneKey(Delivered)

\* The stream resolved after a flush at the threshold and a last flush of
\* fewer records, with a record refused by the seen set on the way.
FinalFlushWitness ==
    /\ api = "stream"
    /\ pc = "resolved"
    /\ Len(batches) >= 2
    /\ Len(batches[1]) = FlushThreshold
    /\ Len(batches[Len(batches)]) < FlushThreshold
    /\ Len(pushed) > Len(Delivered)

\* C11: flush on failure: when getTokenTransfersStream has rejected, the
\* buffer is empty and onBatch has been given every record that was accepted
\* before the error, each once; the rejection is the error the failed call
\* threw (for getTokenAccounts, the error it makes of the upstream one).
FlushOnFailure ==
    (api = "stream" /\ pc = "rejected") =>
        /\ buffer = <<>>
        /\ Delivered = AcceptedRecords
        /\ raised.call # ""
        /\ error = IF raised.call = "getTokenAccounts"
                   THEN <<"Failed to fetch token accounts: ">> \o raised.e
                   ELSE raised.e

\* The stream rejected on a failed page request after a flush at the
\* threshold, with records still in the buffer when the error came.
FlushOnFailureWitness ==
    /\ api = "stream"
    /\ pc = "rejected"
    /\ raised.call = "fetch"
    /\ error = <<"timeout">>
    /\ Len(batches) = 2
    /\ Len(batches[1]) = FlushThreshold
    /\ Len(batches[2]) < FlushThreshold

\* C12: streaming flush pattern: when the stream has resolved after accepting
\* N records, onBatch has been called ceil(N / 10) times, every call but the
\* last with exactly 10 records and the last with the rest.
FlushPattern ==
    (api = "stream" /\ pc = "resolved") =>
        LET N == Len(Delivered)
        IN  /\ Len(batches) = (N + FlushThreshold - 1) \div FlushThreshold
            /\ \A k \in 1..Len(batches) :
                 Len(batches[k]) = IF k < Len(batches) THEN FlushThreshold
                                   ELSE N - FlushThreshold * (Len(batches) - 1)

\* The calls that fetch one unit: a transaction, an account's signatures or
\* token accounts, a block, a search page.
UnitCalls ==
    {"getParsedTransaction", "getSignaturesForAddress", "getTokenAccounts",
     "getParsedBlock", "fetch"}

\* C13: single-unit failures never propagate: no query throws or rejects
\* because the fetch of one transaction, one account's data or signatures,
\* one block or one search page failed.
UnitFailuresSkipped ==
    pc = "rejected" => raised.call \notin UnitCalls

(***************************************************************************)
(* fetchWithRetry of HeliusService and of MetadataService, and the         *)
(* paginating caller HeliusService.searchTokenWideTransfers                 *)
(* (src/unnamed/part_000, src/unnamed/part_001).  Time is Date.now() in ms: *)
(* it moves only by the delays the code awaits and by the idle time         *)
(* between two searches; a request is answered at the time it is issued.    *)
(***************************************************************************)

MaxCalls == 2           \* calls of fetchWithRetry followed
StartMs == NowMs        \* Date.now() when the services are constructed
IdleMs == 60000         \* a search starts at once or IdleMs after the last call

MaxRetries == 3         \* maxRetries = 3
BreakerCount == 3       \* rateLimitCount >= 3
BreakerWindowMs == 30000  \* (now - lastRateLimitTime) < 30000
CooldownMs == 30000     \* await this.delay(30000)
BackoffBaseMs == 1000   \* 1000 * Math.pow(2, attempt)
BackoffCapMs == 10000   \* Math.min(..., 10000)
ErrorDelayMs == 1000    \* await this.delay(1000 * attempt)
PageDelayMs == 300      \* await this.delay(300)
SearchMaxPages == 10    \* const maxPages = 10
SearchMaxTransfers == 2000  \* transfers.length < 2000

RECURSIVE Pow2(_)
Pow2(k) == IF k = 0 THEN 1 ELSE 2 * Pow2(k - 1)

\* waitTime = 1000 * attempt: the delay of the catch branch, in place of the
\* capped exponential one.
waitTime_Linear(k) == ErrorDelayMs * k

\* const waitTime = Math.min(1000 * Math.pow(2, attempt), 10000)
waitTime(k) ==
    IF BackoffBaseMs * Pow2(k) < BackoffCapMs THEN BackoffBaseMs * Pow2(k)
    ELSE BackoffCapMs

\* A Response with the given status; response.ok is status in 200..299.
HttpResponse(status) == [threw |-> FALSE, status |-> status]

\* fetchWithRetry threw the network error of its last attempt.
Thrown == [threw |-> TRUE, status |-> 0]

Ok(response) == ~response.threw /\ response.status \in 200..299

\* The entry of requests for the request now issued; status 0: fetch threw.
Request(status) ==
    [client |-> client, call |-> calls, attempt |-> attempt, at |-> clock,
     status |-> status]

\* !t.tokenAmount: undefined, 0, NaN and '' are falsy.
Falsy(x) ==
    CASE x.kind = "undefined" -> TRUE
      [] x.kind = "number"    -> x.v.nan \/ x.v.v = 0
      [] OTHER                -> x.s = <<>>

\* Token transfer t of a page passes the checks of searchTokenWideTransfers:
\* the mint, an amount that is truthy, a from and a to, and
\* !(amount <= 0 || isNaN(amount)).
SearchValid(t, tokenMint) ==
    /\ t.mint = tokenMint
    /\ ~Falsy(t.tokenAmount)
    /\ (t.fromUserAccount # "" \/ t.fromTokenAccount # "")
    /\ (t.toUserAccount # "" \/ t.toTokenAccount # "")
    /\ IsPositive(NumberOrZero(t.tokenAmount))

\* The records searchTokenWideTransfers pushes for one transaction.
RECURSIVE SearchRecords(_, _, _, _)
SearchRecords(itx, tokenMint, now, k) ==
    IF ~itx.isArray \/ k > Len(itx.tokenTransfers) THEN <<>>
    ELSE (IF SearchValid(itx.tokenTransfers[k], tokenMint)
          THEN <<IndexedRecord(itx, itx.tokenTransfers[k], now)>>
          ELSE <<>>)
         \o SearchRecords(itx, tokenMint, now, k + 1)

\* The loop of searchTokenWideTransfers over the transactions of a page: a
\* transaction older than the cutoff sets foundOldTransfer and is passed
\* over (continue); the loop goes on with the next transaction.
RECURSIVE SearchPageRecords(_, _, _, _, _)
SearchPageRecords(txs, tokenMint, cutoffTimeMs, now, k) ==
    IF k > Len(txs) THEN [records |-> <<>>, foundOldTransfer |-> FALSE]
    ELSE LET rest == SearchPageRecords(txs, tokenMint, cutoffTimeMs, now, k + 1)
         IN  IF OlderThanCutoff(txs[k].blockTime, cutoffTimeMs)
             THEN [records |-> rest.records, foundOldTransfer |-> TRUE]
             ELSE [records |-> SearchRecords(txs[k], tokenMint, now, 1) \o rest.records,
                   foundOldTransfer |-> rest.foundOldTransfer]

\* What the index may answer, when ok, to the request for page p.
SearchPages(p) == {<<>>, FreshPage(p), OddPage, AgedPage(p)}

InitRetry ==
    /\ NoParse
    /\ NoDecimals
    /\ NoQuery
    /\ client = "none"
    /\ step = "idle"
    /\ clock = StartMs
    /\ rateLimitCount = 0
    /\ lastRateLimitTime = 0
    /\ callNow = 0
    /\ attempt = 0
    /\ answer = NoAnswer
    /\ searchPages = 0
    /\ collected = <<>>
    /\ returned = <<>>
    /\ calls = 0
    /\ requests = <<>>
    /\ NoApp
    /\ NoSample
    /\ NoCursor

\* searchTokenWideTransfers is called: transfers = [], pages = 0.
SearchTokenWide ==
    /\ step = "idle"
    /\ calls < MaxCalls
    /\ \E idle \in {0, IdleMs} : clock' = clock + idle
    /\ client' = "helius"
    /\ step' = "loop"
    /\ searchPages' = 0
    /\ collected' = <<>>
    /\ before' = <<>>
    /\ pageLog' = <<>>
    /\ UNCHANGED <<parseVars, decVars, queryVars, appVars, sampleVars, rateLimitCount, lastRateLimitTime,
                   callNow, attempt, answer, returned, calls, requests>>

\* The while test of the search, and the entry of HeliusService.fetchWithRetry
\* with its circuit breaker.
SearchLoop ==
    /\ client = "helius"
    /\ step = "loop"
    /\ IF searchPages < SearchMaxPages /\ Len(collected) < SearchMaxTransfers
       THEN /\ calls < MaxCalls
            /\ calls' = calls + 1
            /\ callNow' = clock
            /\ IF rateLimitCount >= BreakerCount
                  /\ clock - lastRateLimitTime < BreakerWindowMs
               THEN /\ clock' = clock + CooldownMs
                    /\ rateLimitCount' = 0
               ELSE UNCHANGED <<clock, rateLimitCount>>
            /\ attempt' = 1
            /\ step' = "fetch"
            /\ UNCHANGED returned
       ELSE /\ returned' = collected
            /\ step' = "idle"
            /\ UNCHANGED <<calls, callNow, clock, rateLimitCount, attempt>>
    /\ UNCHANGED <<parseVars, decVars, queryVars, appVars, sampleVars, cursorVars, client, lastRateLimitTime, answer,
                   searchPages, collected, requests>>

\* fetchCoinGeckoMetadata calls MetadataService.fetchWithRetry.
FetchMetadata ==
    /\ step = "idle"
    /\ calls < MaxCalls
    /\ calls' = calls + 1
    /\ client' = "metadata"
    /\ attempt' = 1
    /\ step' = "fetch"
    /\ UNCHANGED <<parseVars, decVars, queryVars, appVars, sampleVars, cursorVars, clock, rateLimitCount, lastRateLimitTime,
                   callNow, answer, searchPages, collected, returned, requests>>

\* An ok response that clears the counter.
AfterOk_Cleared(count) == 0

\* Math.max(0, this.rateLimitCount - 1)
AfterOk(count) == IF count - 1 > 0 THEN count - 1 ELSE 0

\* fetch answers with an ok response.
FetchOk ==
    /\ step = "fetch"
    /\ requests' = Append(requests, Request(200))
    /\ rateLimitCount' = IF client = "helius" THEN AfterOk(rateLimitCount)
                         ELSE rateLimitCount
    /\ answer' = HttpResponse(200)
    /\ step' = "answered"
    /\ UNCHANGED <<parseVars, decVars, queryVars, appVars, sampleVars, cursorVars, client, clock, lastRateLimitTime, callNow,
                   attempt, searchPages, collected, returned, calls>>

\* fetch answers 429.
FetchRateLimited ==
    /\ step = "fetch"
    /\ requests' = Append(requests, Request(429))
    /\ IF client = "helius"
       THEN /\ rateLimitCount' = rateLimitCount + 1
            /\ lastRateLimitTime' = callNow
       ELSE UNCHANGED <<rateLimitCount, lastRateLimitTime>>
    /\ IF attempt < MaxRetries
       THEN /\ clock' = clock + waitTime(attempt)
            /\ attempt' = attempt + 1
            /\ UNCHANGED <<answer, step>>
       ELSE /\ answer' = HttpResponse(429)
            /\ step' = "answered"
            /\ UNCHANGED <<clock, attempt>>
    /\ UNCHANGED <<parseVars, decVars, queryVars, appVars, sampleVars, cursorVars, client, callNow, searchPages, collected,
                   returned, calls>>

\* fetch answers with a response that is neither ok nor 429.
FetchNotOk ==
    /\ step = "fetch"
    /\ requests' = Append(requests, Request(500))
    /\ answer' = HttpResponse(500)
    /\ step' = "answered"
    /\ UNCHANGED <<parseVars, decVars, queryVars, appVars, sampleVars, cursorVars, client, clock, rateLimitCount,
                   lastRateLimitTime, callNow, attempt, searchPages, collected,
                   returned, calls>>

\* fetch throws (no response).
FetchThrows ==
    /\ step = "fetch"
    /\ requests' = Append(requests, Request(0))
    /\ IF attempt = MaxRetries
       THEN /\ answer' = Thrown
            /\ step' = "answered"
            /\ UNCHANGED <<clock, attempt>>
       ELSE /\ clock' = clock + ErrorDelayMs * attempt
            /\ attempt' = attempt + 1
            /\ UNCHANGED <<answer, step>>
    /\ UNCHANGED <<parseVars, decVars, queryVars, appVars, sampleVars, cursorVars, client, rateLimitCount, lastRateLimitTime,
                   callNow, searchPages, collected, returned, calls>>

\* The search after fetchWithRetry: the catch, the break on a response that
\* is not ok, or the page.
SearchPage ==
    /\ client = "helius"
    /\ step = "answered"
    /\ IF answer.threw
       THEN /\ returned' = <<>>
            /\ step' = "idle"
            /\ pageLog' = Append(pageLog, PageRequest(before, FALSE, <<>>, FALSE, Len(collected)))
            /\ UNCHANGED <<clock, searchPages, collected, before>>
       ELSE IF ~Ok(answer)
       THEN /\ returned' = collected
            /\ step' = "idle"
            /\ pageLog' = Append(pageLog, PageRequest(before, FALSE, <<>>, FALSE, Len(collected)))
            /\ UNCHANGED <<clock, searchPages, collected, before>>
       ELSE \E txs \in SearchPages(searchPages + 1) :
            LET page == SearchPageRecords(txs, TokenMint, CutoffTimeMs, clock, 1)
            IN  /\ collected' = collected \o page.records
                /\ pageLog' = Append(pageLog, PageRequest(before, TRUE, txs, page.foundOldTransfer,
                                                         Len(collected')))
                /\ before' = IF txs # <<>> /\ ~page.foundOldTransfer
                             THEN NextCursor(txs) ELSE before
                /\ IF txs # <<>> /\ ~page.foundOldTransfer
                   THEN /\ searchPages' = searchPages + 1
                        /\ clock' = clock + PageDelayMs
                        /\ step' = "loop"
                        /\ UNCHANGED returned
                   ELSE /\ returned' = collected'
                        /\ step' = "idle"
                        /\ UNCHANGED <<clock, searchPages>>
    /\ UNCHANGED <<parseVars, decVars, queryVars, appVars, sampleVars, client, rateLimitCount, lastRateLimitTime,
                   callNow, attempt, answer, calls, requests>>

\* fetchCoinGeckoMetadata after fetchWithRetry: it reads an ok response and
\* swallows anything else.
MetadataDone ==
    /\ client = "metadata"
    /\ step = "answered"
    /\ step' = "idle"
    /\ UNCHANGED <<parseVars, decVars, queryVars, appVars, sampleVars, cursorVars, client, clock, rateLimitCount,
                   lastRateLimitTime, callNow, attempt, answer, searchPages,
                   collected, returned, calls, requests>>

NextRetry ==
    \/ SearchTokenWide
    \/ SearchLoop
    \/ FetchMetadata
    \/ FetchOk
    \/ FetchRateLimited
    \/ FetchNotOk
    \/ FetchThrows
    \/ SearchPage
    \/ MetadataDone

SpecRetry == InitRetry /\ [][NextRetry]_vars

(***************************************************************************)
(* The circuit breaker of HeliusService.fetchWithRetry                      *)
(***************************************************************************)

\* The requests HeliusService has issued, as indices of requests.
HeliusRequests == {i \in 1..Len(requests) : requests[i].client = "helius"}

\* Requests i < j < k of HeliusService were answered 429 within one window.
Tripped(i, j, k) ==
    /\ i < j /\ j < k
    /\ \A n \in {i, j, k} : requests[n].status = 429
    /\ requests[k].at - requests[i].at <= BreakerWindowMs

\* C14: once HeliusService has received three 429 responses within a window
\* of 30 seconds, every request it issues afterwards, whether a retry of the
\* same call or a request of a later call, is issued at least 30 seconds
\* after the third of them.
CircuitBreaker ==
    \A i, j, k, r \in HeliusRequests :
        (Tripped(i, j, k) /\ k < r) =>
            requests[r].at - requests[k].at >= CooldownMs

(***************************************************************************)
(* Bounded retry of fetchWithRetry                                          *)
(***************************************************************************)

\* The awaited fetch and the awaited delays of a call settle.
SpecRetryLive ==
    SpecRetry /\ WF_vars(FetchOk \/ FetchRateLimited \/ FetchNotOk \/ FetchThrows)

\* The requests call c of fetchWithRetry has issued.
RequestsOf(c) == {i \in 1..Len(requests) : requests[i].call = c}

\* min(1000 * 2^k, 10000)
CappedExponential(k) == IF 1000 * 2^k < 10000 THEN 1000 * 2^k ELSE 10000

\* The last request issued.
LastRequest == requests[Len(requests)]

\* What holds of the requests issued so far and of a call that has returned.
RetryBounded ==
    /\ \A c \in 1..calls :
        /\ Cardinality(RequestsOf(c)) <= 3
        /\ \A i \in RequestsOf(c) : requests[i].attempt \in 1..3
    /\ \A i \in 1..Len(requests) - 1 :
        (requests[i].status = 429 /\ requests[i].attempt < 3) =>
            /\ requests[i + 1].call = requests[i].call
            /\ requests[i + 1].attempt = requests[i].attempt + 1
            /\ requests[i + 1].at - requests[i].at = CappedExponential(requests[i].attempt)
    /\ \A i \in 1..Len(requests) - 1 :
        (requests[i].status = 429 /\ requests[i].attempt = 3) =>
            requests[i + 1].call # requests[i].call
    /\ (/\ requests # <<>>
        /\ LastRequest.call = calls
        /\ LastRequest.status = 429
        /\ LastRequest.attempt = 3) =>
        /\ step # "fetch"
        /\ answer = [threw |-> FALSE, status |-> 429]
        /\ (client = "helius" /\ step = "idle") =>
            /\ returned = collected

\* C20: a call of fetchWithRetry issues at most 3 requests and then returns;
\* after a 429 on attempt k < 3 the next attempt is issued min(1000 * 2^k,
\* 10000) ms later; a 429 on attempt 3 is returned as a response, is not
\* retried, and searchTokenWideTransfers then returns the transfers of the
\* pages it had collected.
BoundedRetry == []RetryBounded /\ (step = "fetch" ~> step = "answered")

\* The search collected one page, its second call was answered 429 three
\* times, and it returned the page.
BoundedRetryWitness ==
    /\ client = "helius"
    /\ step = "idle"
    /\ requests # <<>>
    /\ LastRequest.status = 429
    /\ LastRequest.attempt = 3
    /\ Cardinality(RequestsOf(calls)) = 3
    /\ returned # <<>>
    /\ returned = collected

(***************************************************************************)
(* The lookback cutoff                                                      *)
(***************************************************************************)

\* C15: no record returned by getTokenTransfers and no record delivered by
\* getTokenTransfersStream has a timestamp below the time the query started
\* minus lookbackSeconds * 1000.
LookbackCutoff ==
    /\ \A i \in 1..Len(result) : result[i].timestamp >= NowMs - LookbackSeconds * 1000
    /\ \A i \in 1..Len(Delivered) : Delivered[i].timestamp >= NowMs - LookbackSeconds * 1000

(***************************************************************************)
(* The decimal normalizers on their own: getTokenDecimalsFromBalances of    *)
(* SolanaService and of TransactionParser applied to the snapshots of one   *)
(* transaction.                                                             *)
(***************************************************************************)

MaxPre == 2     \* pre-snapshots of a transaction
MaxPost == 1    \* post-snapshots of a transaction

\* A mint of the static table (BONK, 5 decimals).
TableMint == "DezXAZ8z7PnrnRJjz3wXBoRgixCa6xjnB7YaB1pPB263"

\* uiTokenAmount.decimals of a snapshot: absent, null, 0 or 2.
DecimalsFields == {DecUndefined, DecNull, Dec(0), Dec(2)}

\* The snapshot lists of at most n entries, each of the mint or of another
\* one, each with one of the decimals fields.
SnapshotLists(mint, n) ==
    UNION { { [i \in 1..k |-> TokenBalance(i, OwnerNames[1], f[i][1], AmountString(100), f[i][2])] :
              f \in [1..k -> {mint, "Y"} \X DecimalsFields] } : k \in 0..n }

DecimalTransactions(mint) ==
    { [hasMeta |-> TRUE, blockTime |-> NowSec - 10, signature |-> "sig1", slot |-> 77,
       pre |-> pre, post |-> post] :
      pre \in SnapshotLists(mint, MaxPre), post \in SnapshotLists(mint, MaxPost) }

InitDecimals ==
    /\ target \in {TokenMint, TableMint}
    /\ tx \in DecimalTransactions(target)
    /\ wallet = NoOwner
    /\ op = "none"
    /\ deltas = <<>>
    /\ records = <<>>
    /\ resolved = DecUndefined
    /\ NoQuery
    /\ NoRetry
    /\ NoApp
    /\ NoSample
    /\ NoCursor

DecimalsSolana ==
    /\ op = "none"
    /\ op' = "decimalsSolana"
    /\ resolved' = Dec(Solana_getTokenDecimalsFromBalances(tx.pre, tx.post, target))
    /\ UNCHANGED <<tx, wallet, deltas, records, target, queryVars, retryVars,
                   appVars, sampleVars, cursorVars>>

DecimalsParser ==
    /\ op = "none"
    /\ op' = "decimalsParser"
    /\ resolved' = Dec(Parser_getTokenDecimalsFromBalances(tx.pre, tx.post, target))
    /\ UNCHANGED <<tx, wallet, deltas, records, target, queryVars, retryVars,
                   appVars, sampleVars, cursorVars>>

NextDecimals ==
    \/ DecimalsSolana
    \/ DecimalsParser

SpecDecimals == InitDecimals /\ [][NextDecimals]_vars

\* The snapshots of the transaction, pre first.
AllSnapshots == tx.pre \o tx.post

\* The snapshots of the target mint that carry a number as decimals.
Explicit == {k \in 1..Len(AllSnapshots) :
                AllSnapshots[k].mint = target /\ AllSnapshots[k].decimals.kind = "num"}

\* C16: a decimal normalizer returns the decimals of the first pre/post
\* snapshot of the target mint that carries a decimals field; when there is
\* none, the static-table value of the mint; when the mint is not in the
\* table, 6.
DecimalResolution ==
    op \in {"decimalsSolana", "decimalsParser"} =>
        resolved.v = IF Explicit # {}
                     THEN AllSnapshots[CHOOSE k \in Explicit : \A n \in Explicit : k <= n].decimals.v
                     ELSE IF target = TableMint THEN 5
                     ELSE 6

(***************************************************************************)
(* The fatal failure of a batch query                                       *)
(***************************************************************************)

\* C17: when the connectivity check (getSlot) of getTokenTransfers fails,
\* the query throws "Failed to fetch token transfers: Error: RPC connection
\* failed"; no strategy has been invoked (no page, block, signature list or
\* token account was requested) and nothing is returned.
FatalBatchFailure ==
    (api = "batch" /\ raised.call = "getSlot") =>
        /\ pc = "rejected"
        /\ error = <<"Failed to fetch token transfers: ", "Error: ", "RPC connection failed">>
        /\ strategies = <<>>
        /\ pages = 0 /\ scanned = 0 /\ sigIdx = 0 /\ atasLeft = 0
        /\ transfers = <<>>
        /\ result = <<>>

\* getSlot timed out and the batch query threw.
FatalBatchFailureWitness ==
    /\ api = "batch"
    /\ pc = "rejected"
    /\ raised = [call |-> "getSlot", e |-> <<"timeout">>]
    /\ error # <<>>

(***************************************************************************)
(* The strategies of a token-wide batch query                               *)
(***************************************************************************)

StrategyRank(strategy) ==
    CASE strategy = "indexed-search" -> 1
      [] strategy = "block-scan"     -> 2
      [] strategy = "sampling"       -> 3

\* The strategies invoked so far, in order: those that have returned and the
\* one running.
Invoked ==
    [i \in 1..Len(strategies) |-> strategies[i].strategy] \o
    (CASE pc = "search" -> <<"indexed-search">>
       [] pc = "blocks" -> <<"block-scan">>
       [] pc = "sample" -> <<"sampling">>
       [] OTHER         -> <<>>)

Range(seq) == {seq[i] : i \in 1..Len(seq)}

\* Strategies are invoked in the order indexed-search, block-scan, sampling,
\* each after the ones invoked before it returned no record, and the list
\* returned holds the records of the last one invoked and of no other.
InOrderOneSource ==
    /\ \A i, j \in 1..Len(Invoked) :
        i < j => /\ StrategyRank(Invoked[i]) < StrategyRank(Invoked[j])
                 /\ strategies[i].records = <<>>
    /\ pc = "returned" =>
        /\ strategies # <<>>
        /\ Range(result) \subseteq Range(strategies[Len(strategies)].records)
        /\ {Key(t) : t \in Range(result)} =
           {Key(t) : t \in Range(strategies[Len(strategies)].records)}
        /\ Len(result) = Cardinality({Key(t) : t \in Range(result)})

\* C18 as stated: in a token-wide batch query a strategy is invoked only
\* after every strategy before it in the order indexed-search, block-scan,
\* sampling has returned no record, and the list returned holds the records
\* of one strategy only.
StrategyFallthrough ==
    (api = "batch" /\ scope = NoOwner) =>
        /\ InOrderOneSource
        /\ \A j \in 1..Len(Invoked) : \A r \in 1..StrategyRank(Invoked[j]) - 1 :
            \E i \in 1..j - 1 : StrategyRank(Invoked[i]) = r

\* C18, amended: the indexed search is invoked only when the RPC URL
\* contains "helius"; the strategies that apply are invoked in order, none
\* skipped, each after the ones before it returned no record, and the list
\* returned holds the records of the last one invoked and of no other.
StrategyFallthroughWhereAvailable ==
    (api = "batch" /\ scope = NoOwner) =>
        /\ InOrderOneSource
        /\ \A j \in 1..Len(Invoked) :
            StrategyRank(Invoked[j]) =
                (IF rpc = "plain" THEN 1 ELSE 0) + j
        /\ pc \notin {"start", "rejected"} => Invoked # <<>>

\* With a Helius URL the indexed search and the block scan returned nothing
\* and the sampling's records were returned.
StrategyFallthroughWitness ==
    /\ api = "batch" /\ scope = NoOwner /\ rpc = "helius"
    /\ pc = "returned"
    /\ Len(strategies) = 3
    /\ strategies[1].records = <<>>
    /\ strategies[2].records = <<>>
    /\ strategies[3].records # <<>>
    /\ result # <<>>

(***************************************************************************)
(* The fallback of a token-wide stream                                      *)
(***************************************************************************)

\* The record came from a page of the index.
FromIndex(t) == t.signature[1] \in {"idx", "odd", "aged"}

\* The indexed search accepted a record.
IndexAccepted == \E i \in 1..Len(pushed) : Accepted(i) /\ FromIndex(pushed[i])

StreamFallbackState ==
    (api = "stream" /\ scope = NoOwner) =>
        /\ pc = "indexed" => scanned = 0
        /\ (pc = "scan" \/ scanned > 0) => ~IndexAccepted
        /\ (pc = "scan" /\ scanned = 0) => (seen = {} /\ buffer = <<>> /\ batches = <<>>)
        /\ IndexAccepted => pc \in {"indexed", "resolved", "rejected"}

\* The step into the block scan: from the start when the URL gives no search
\* URL, or from the indexed search when it is over with nothing accepted.
StreamFallbackStep ==
    (api = "stream" /\ scope = NoOwner /\ pc # "scan" /\ pc' = "scan") =>
        \/ pc = "start" /\ rpc # "helius"
        \/ pc = "indexed" /\ seen' = {} /\ buffer' = <<>> /\ pushed' = pushed

\* C19: in a token-wide stream the block scan starts only after the indexed
\* search is over and flushed, and only when the indexed search accepted no
\* record (there was no search URL, or its first page was empty or not ok);
\* once the indexed search has accepted a record no block is fetched.
StreamFallback == []StreamFallbackState /\ [][StreamFallbackStep]_vars

\* With a search URL the indexed search accepted nothing, and the block scan
\* that followed delivered records.
StreamFallbackWitness ==
    /\ api = "stream" /\ scope = NoOwner /\ rpc = "helius"
    /\ scanned > 0
    /\ Delivered # <<>>

(***************************************************************************)
(* Early termination of the time-ordered sources                            *)
(***************************************************************************)

\* The page of the index a signature of the index belongs to.
PageOf(sig) ==
    CASE sig[1] = "idx"  -> FreshPage(sig[2])
      [] sig[1] = "aged" -> AgedPage(sig[2])
      [] sig[1] = "odd"  -> OddPage
      [] OTHER           -> <<>>

\* Record t of the index was made of a transaction that comes, in its page,
\* after a transaction with a block time before the cutoff.
AfterOldItem(t) ==
    \E i \in 1..(t.signature[3] - 1) :
        i <= Len(PageOf(t.signature))
        /\ OlderThanCutoff(PageOf(t.signature)[i].blockTime, CutoffTimeMs)

\* C21: once the indexed search of HeliusService has met a transaction with
\* a block time before the cutoff, it collects no record from the
\* transactions that follow it in the page.
EarlyTermination ==
    \A i \in 1..Len(collected) : ~AfterOldItem(collected[i])

(***************************************************************************)
(* TokenTracker (src/src/App.tsx): the screen that runs a query.  For the  *)
(* query on screen it calls getTokenTransfers through useQuery and         *)
(* getTokenTransfersStream from an effect, each on a SolanaService of its  *)
(* own, and shows the stream's batches followed by the batch result.       *)
(* Nothing cancels a stream: it runs on after handleReset.                 *)
(***************************************************************************)
MaxQueries == 2          \* queries the user submits

\* What the services find for query q: the transfers of an indexed page whose
\* signatures name the query.
Found(q) == PageRecords(FreshPage(q), TokenMint, CutoffTimeMs, NowMs, 1).records

NoStream == [state |-> "none", sent |-> 0]

NoData == [status |-> "idle", data |-> <<>>]

InitApp ==
    /\ NoParse
    /\ NoDecimals
    /\ NoQuery
    /\ NoRetry
    /\ NoSample
    /\ NoCursor
    /\ appState = 0
    /\ submitted = 0
    /\ effectRan = FALSE
    /\ isStreaming = FALSE
    /\ isTracking = FALSE
    /\ streamTransfers = <<>>
    /\ streams = [q \in 1..MaxQueries |-> NoStream]
    /\ queryData = [q \in 1..MaxQueries |-> NoData]

\* handleAnalyze: the input form (shown while appState is null) submits a query.
handleAnalyze ==
    /\ appState = 0
    /\ submitted < MaxQueries
    /\ submitted' = submitted + 1
    /\ appState' = submitted + 1
    /\ effectRan' = FALSE
    /\ UNCHANGED <<parseVars, decVars, queryVars, retryVars, sampleVars, cursorVars,
                   isStreaming, isTracking, streamTransfers, streams, queryData>>

\* run(), as a function of isStreaming.current.
run(q) ==
    IF isStreaming THEN UNCHANGED <<isStreaming, isTracking, streamTransfers, streams>>
    ELSE /\ isStreaming' = TRUE
         /\ isTracking' = TRUE
         /\ streamTransfers' = <<>>
         /\ streams' = [streams EXCEPT ![q] = [state |-> "running", sent |-> 0]]

\* tokenMetadata of the query arrives: the transfers query becomes enabled
\* and the effect calls run().
RunEffect ==
    /\ appState # 0
    /\ ~effectRan
    /\ effectRan' = TRUE
    /\ queryData' = [queryData EXCEPT ![appState] = [status |-> "pending", data |-> <<>>]]
    /\ run(appState)
    /\ UNCHANGED <<parseVars, decVars, queryVars, retryVars, sampleVars, cursorVars,
                   appState, submitted>>

\* The stream of query q hands its next batch to onBatch:
\* setStreamTransfers((prev) => [...batch, ...prev]).
onBatch(q) ==
    /\ streams[q].state = "running"
    /\ \E n \in 1..(Len(Found(q)) - streams[q].sent) :
          LET batch == SubSeq(Found(q), streams[q].sent + 1, streams[q].sent + n)
          IN  /\ streamTransfers' = batch \o streamTransfers
              /\ streams' = [streams EXCEPT ![q].sent = @ + n]
    /\ UNCHANGED <<parseVars, decVars, queryVars, retryVars, sampleVars, cursorVars,
                   appState, submitted, effectRan, isStreaming, isTracking, queryData>>

\* The stream of query q settles: the finally block of run().
StreamSettled(q) ==
    /\ streams[q].state = "running"
    /\ streams' = [streams EXCEPT ![q].state = "done"]
    /\ isStreaming' = FALSE
    /\ isTracking' = FALSE
    /\ UNCHANGED <<parseVars, decVars, queryVars, retryVars, sampleVars, cursorVars,
                   appState, submitted, effectRan, streamTransfers, queryData>>

\* getTokenTransfers of query q resolves; useQuery keeps the list under the
\* query's key.
QueryResolved(q) ==
    /\ queryData[q].status = "pending"
    /\ \E ts \in {<<>>, Found(q)} :
          queryData' = [queryData EXCEPT ![q] = [status |-> "success", data |-> ts]]
    /\ UNCHANGED <<parseVars, decVars, queryVars, retryVars, sampleVars, cursorVars,
                   appState, submitted, effectRan, isStreaming, isTracking,
                   streamTransfers, streams>>

handleReset ==
    /\ appState # 0
    /\ appState' = 0
    /\ streamTransfers' = <<>>
    /\ isTracking' = FALSE
    /\ isStreaming' = FALSE
    /\ effectRan' = FALSE
    /\ UNCHANGED <<parseVars, decVars, queryVars, retryVars, sampleVars, cursorVars,
                   submitted, streams, queryData>>

NextApp ==
    \/ handleAnalyze
    \/ RunEffect
    \/ \E q \in 1..MaxQueries : onBatch(q)
    \/ \E q \in 1..MaxQueries : StreamSettled(q)
    \/ \E q \in 1..MaxQueries : QueryResolved(q)
    \/ handleReset

SpecApp == InitApp /\ [][NextApp]_vars

\* transfers: the data of the transfers query of the query on screen.
transfers_OnScreen ==
    IF appState # 0 THEN queryData[appState].data ELSE <<>>

\* combinedTransfers = (streamTransfers.length ? streamTransfers : []).concat(transfers || [])
combinedTransfers == streamTransfers \o transfers_OnScreen

\* C22: one dedup scope per query: the result set shown for the query on
\* screen (the stream's batches accumulated by the caller, combined with the
\* batch result of the same query) never holds two records with one composite
\* key (transactionId, fromEntity, toEntity, amount).
OneDedupScope == appState # 0 => NoTwoWithOneKey(combinedTransfers)

\* The query a record was found for: Found(q) holds the signatures <<"idx", q, j>>.
QueryOf(t) == t.signature[2]

\* C23: per-query isolation under reset: the result set of the query on
\* screen holds only records found for that query (a batch an earlier stream
\* hands over late is never added to it), and while the stream of the query
\* on screen runs, the settling of an earlier stream does not clear its
\* streaming / tracking state.
PerQueryIsolation ==
    appState # 0 =>
        /\ \A i \in 1..Len(combinedTransfers) : QueryOf(combinedTransfers[i]) = appState
        /\ streams[appState].state = "running" => isStreaming /\ isTracking

\* C24: non-numeric raw amounts fail closed: whatever the raw amounts of the
\* snapshots are, no balance change an extractor produced has a NaN change
\* and no record a parser returned has a NaN amount.
FailClosed ==
    /\ \A k \in 1..Len(deltas) : ~deltas[k].change.nan
    /\ \A k \in 1..Len(records) : ~records[k].amount.nan

\* C25: one delta per owning entity: the balance changes an extractor
\* produced for a transaction hold at most one change per owner, and every
\* change has an owner and is not zero.
OneDeltaPerOwner ==
    /\ \A i, j \in 1..Len(deltas) : i < j => deltas[i].owner # deltas[j].owner
    /\ \A k \in 1..Len(deltas) :
          deltas[k].owner # NoOwner /\ StrictNeZero(deltas[k].change)

\* The block scans: pc is "blocks" in getTransfersByScanningBlocks and "scan"
\* in the block scan of the stream.
InBlockScan == pc \in {"blocks", "scan"}

\* A step of a block scan does not end the query with an error.
BestEffortStep == InBlockScan => pc' # "rejected"

\* C26: block-scan is bounded and best-effort: a block-scan run (of the batch
\* query or of the stream) asks for at most 120 blocks, asks for none once
\* the collected records have reached the ceiling of 200, and never ends the
\* query with an error because the head or a block could not be fetched: it
\* ends returning what it has collected.
BlockScanBounded ==
    /\ [](scanned <= BatchMaxBlocks)
    /\ [](Len(transfers) >= BatchMaxTransfers => pc # "blocks")
    /\ [][BestEffortStep]_vars

(***************************************************************************)
(* The three indexed searches together: getTransfersWithHeliusSearchBy-    *)
(* Seconds and the page loop of the stream (Spec) and HeliusService.       *)
(* searchTokenWideTransfers (SpecRetry).                                    *)
(***************************************************************************)
SpecSearch == (Init \/ InitRetry) /\ [][Next \/ NextRetry]_vars

\* The page budget and the record ceiling of the search that is running.
PageBudget ==
    CASE api = "batch"  -> BatchMaxPages
      [] api = "stream" -> StreamMaxPages
      [] OTHER          -> SearchMaxPages

\* The stream's page loop has no record ceiling.
CeilingReached(held) ==
    CASE api = "batch"  -> held >= BatchMaxTransfers
      [] api = "stream" -> FALSE
      [] OTHER          -> held >= SearchMaxTransfers

\* After page request e the search asks for no further page.
LastPage(e) == ~e.ok \/ e.empty \/ e.old \/ CeilingReached(e.held)

MaxPopulation == 120       \* accounts getProgramAccounts returns, at most

BlockchainCap == 100       \* Math.min(100, totalAccounts)

SolanaCap == 50            \* accounts.slice(0, 50)

\* step = totalAccounts / maxAccountsToSample and i * step are doubles: for
\* the populations of up to 130 accounts these are the <<totalAccounts, i>>
\* at which the product i * step rounds to the double just below the whole
\* number i * totalAccounts / 100 (50 * 1.14 is 56.99999999999999), so that
\* Math.floor gives one less.  Everywhere else in that range Math.floor of
\* the double is the floor of the quotient.
RoundsBelow == {<<114, 50>>, <<116, 25>>, <<116, 50>>}

\* Math.floor(i * step), step = totalAccounts / maxAccountsToSample
StrideIndex(i, totalAccounts, maxAccountsToSample) ==
    (i * totalAccounts) \div maxAccountsToSample
        - (IF <<totalAccounts, i>> \in RoundsBelow THEN 1 ELSE 0)

\* BlockchainService: accountsToSample
Blockchain_accountsToSample(accs) ==
    LET totalAccounts       == Len(accs)
        maxAccountsToSample == IF totalAccounts < BlockchainCap THEN totalAccounts
                               ELSE BlockchainCap
    IN  IF totalAccounts <= maxAccountsToSample THEN accs
        ELSE [k \in 1..maxAccountsToSample |->
                 accs[StrideIndex(k - 1, totalAccounts, maxAccountsToSample) + 1]]

\* SolanaService: accounts.slice(0, 50)
Solana_accountsToSample(accs) ==
    SubSeq(accs, 1, IF Len(accs) < SolanaCap THEN Len(accs) ELSE SolanaCap)

InitSample ==
    /\ NoParse
    /\ NoDecimals
    /\ NoQuery
    /\ NoRetry
    /\ NoApp
    /\ NoCursor
    /\ \E n \in 0..MaxPopulation : accounts = [k \in 1..n |-> k]
    /\ sampler = "none"
    /\ accountsToSample = <<>>

\* if (!accounts || accounts.length === 0) return []; then the down-selection.
SampleBlockchain ==
    /\ sampler = "none"
    /\ sampler' = "blockchain"
    /\ accountsToSample' = Blockchain_accountsToSample(accounts)
    /\ UNCHANGED <<parseVars, decVars, queryVars, retryVars, appVars, cursorVars, accounts>>

SampleSolana ==
    /\ sampler = "none"
    /\ sampler' = "solana"
    /\ accountsToSample' = Solana_accountsToSample(accounts)
    /\ UNCHANGED <<parseVars, decVars, queryVars, retryVars, appVars, cursorVars, accounts>>

NextSample ==
    \/ SampleBlockchain
    \/ SampleSolana

SpecSample == InitSample /\ [][NextSample]_vars

\* The cap of the sampler that ran.
CapOf(s) == IF s = "blockchain" THEN BlockchainCap ELSE SolanaCap

\* An even stride over the full list: the accounts at the indexes
\* floor(i * N / C), i = 0..C-1.
EvenStride(accs, C) ==
    [k \in 1..C |-> accs[((k - 1) * Len(accs)) \div C + 1]]

\* C28: sampling down-selection: for a population of N token accounts and
\* cap C the sampled list is the whole population when N <= C, and otherwise
\* the C accounts at the indexes floor(i * N / C), i = 0..C-1, which are in
\* range, strictly increasing and pairwise distinct (an even stride over the
\* full list, not a prefix); the sample is a function of the population.
SamplingDownSelection ==
    sampler # "none" =>
        accountsToSample = IF Len(accounts) <= CapOf(sampler) THEN accounts
                           ELSE EvenStride(accounts, CapOf(sampler))

\* The records the stream has accepted, in order: those handed to onBatch and
\* then those still in the buffer.
Held(bs, buf) == Flatten(bs) \o buf

\* A step takes no record out of the buffer except into a batch of onBatch:
\* what was handed over or buffered before is still there, in place.
BufferDrainsToOnBatch ==
    /\ Len(Held(batches', buffer')) >= Len(Held(batches, buffer))
    /\ SubSeq(Held(batches', buffer'), 1, Len(Held(batches, buffer))) = Held(batches, buffer)

\* C29: batch size bounds: in getTokenTransfersStream onBatch is never called
\* with an empty list and never with more than 10 records, the buffer never
\* holds more than 10 records, and a record leaves the buffer only by being
\* handed to onBatch, on every strategy path and on the success and the
\* failure exit alike.
BatchSizeBounds ==
    /\ [](\A k \in 1..Len(batches) :
             Len(batches[k]) >= 1 /\ Len(batches[k]) <= FlushThreshold)
    /\ [](Len(buffer) <= FlushThreshold)
    /\ [][BufferDrainsToOnBatch]_vars

\* The stream ended with rejected after onBatch got a full batch and a rest.
BatchSizeBoundsWitness ==
    /\ api = "stream"
    /\ pc = "rejected"
    /\ \E k \in 1..Len(batches) : Len(batches[k]) = FlushThreshold
    /\ \E k \in 1..Len(batches) : Len(batches[k]) < FlushThreshold

\* The step issued a request of HeliusService.
HeliusAnswered ==
    /\ Len(requests') = Len(requests) + 1
    /\ requests'[Len(requests')].client = "helius"

\* The step served the cooldown of the circuit breaker: no other delay of the
\* clients is as long as CooldownMs.
CooldownServed == clock' = clock + CooldownMs

\* What a step does to rateLimitCount.
CounterStep ==
    IF HeliusAnswered
    THEN LET status == requests'[Len(requests')].status
         IN  CASE status = 429 -> rateLimitCount' = rateLimitCount + 1
               [] status = 200 -> /\ rateLimitCount' <= rateLimitCount
                                  /\ rateLimitCount' >= rateLimitCount - 1
               [] OTHER        -> rateLimitCount' = rateLimitCount
    ELSE IF CooldownServed THEN rateLimitCount' = 0
    ELSE rateLimitCount' = rateLimitCount

\* C30: circuit-breaker counter: across any sequence of fetchWithRetry calls
\* and responses rateLimitCount is never negative, grows by exactly 1 with
\* every 429 response, falls by at most 1 with an ok response, is left alone
\* by other responses and by thrown network errors, and is set to 0 exactly
\* when a cooldown has been served.
CircuitBreakerCounter ==
    /\ [](rateLimitCount >= 0)
    /\ [][CounterStep]_vars

\* A call of fetchWithRetry has just served the cooldown after the counter
\* had reached the breaker count.
CircuitBreakerCounterWitness ==
    /\ client = "helius"
    /\ step = "fetch"
    /\ attempt = 1
    /\ clock = callNow + CooldownMs
    /\ rateLimitCount = 0
    /\ \E i \in HeliusRequests : requests[i].status = 429

====
